---- MODULE Spec2Model ----
(***************************************************************************)
(* Block-proposal construction of the ledger shell (prepare_proposal):     *)
(* the three allocation phases, the admission gate for wrapper txs, the    *)
(* temp write-log overlay and the block allocator's bins.                  *)
(*                                                                         *)
(* A tx of the request is a record of the fields the code reads from its   *)
(* bytes; a Vec<TxBytes> is a sequence of indices into the request, so     *)
(* that two byte-identical entries stay distinguishable by position.       *)
(* Option<T> is <<>> (None) or <<x>> (Some(x)).                            *)
(***************************************************************************)
EXTENDS Integers, Sequences, FiniteSets, TLC

\* ------------------------------------------------------------- bounds
\* Longest request (mempool list) explored.
MaxLen == 4
\* Width of the scaled-down token Amount (the code's is 256 bits).
AmountBits == 4
\* Largest bin capacity and request explored for a single Bin.
MaxCap == 6

\* Number of successive prepare_proposal calls on the same request.
MaxCalls == 2
DecPrecision == 1
WordBits == 1

AmountMax == 2^AmountBits - 1

None == <<>>
Some(x) == <<x>>

\* ------------------------------------------------------------- state
VARIABLES
    req,         \* RequestPrepareProposal.txs as received: Seq of tx records
    block_time,  \* RequestPrepareProposal.time: Option<Timestamp>
    mode,        \* ShellMode: [validator, local_config: Option<token -> rate>]
    storage,     \* committed state read by the call (never written by it)
    pc,          \* position in prepare_proposal
    txs,         \* req.txs as mutated by the protocol-tx drain (indices)
    cursor,      \* position of the running iterator in txs
    halted,      \* take_while of the running phase has returned false
    alloc,       \* BlockAllocator: its bins
    temp_state,  \* TempWlState: writes committed to the temp write log
    batches,     \* the Vec collected by each phase
    out,         \* the txs vector prepare_proposal builds and returns
    log,         \* history: one record per candidate offered, in order
    bin,         \* a single Bin, for the try_consume contract
    bin_call,    \* the last try_consume call on bin
    returned,    \* the responses of the calls that have returned, in order
    inflation_call, \* the last PDController::compute_inflation call, if any
    vp_call,        \* the last PgfVp::validate_tx call, if any
    amount_call     \* the last call of an operation of token::Amount, if any

vars == << req, block_time, mode, storage, pc, txs, cursor, halted, alloc,
           temp_state, batches, out, log, bin, bin_call, returned,
                    inflation_call, vp_call, amount_call >>

proposalVars == << req, block_time, mode, storage, pc, txs, cursor, halted,
                   alloc, temp_state, batches, out, log, returned >>

\* ------------------------------------------------------------- helpers
Range(s) == { s[k] : k \in 1..Len(s) }

RemoveAt(s, j) == [ k \in 1..(Len(s) - 1) |-> IF k < j THEN s[k] ELSE s[k + 1] ]

SeqsUpTo(S, n) == UNION { [1..k -> S] : k \in 0..n }

RECURSIVE SumSize(_, _)
\* Total byte size of the txs of r that the indices of s name.
SumSize(s, r) ==
    IF s = <<>> THEN 0 ELSE r[Head(s)].size + SumSize(Tail(s), r)

RECURSIVE SumGas(_, _)
\* Total gas limit of the txs of r that the indices of s name.
SumGas(s, r) ==
    IF s = <<>> THEN 0 ELSE r[Head(s)].gas_limit + SumGas(Tail(s), r)

Addresses == { "A", "B", "Val" }
Tokens == { "NAM", "BTC", "APFEL" }
Proposer == "Val"

PhaseProtoWith == "BuildingProtocolTxBatch_WithNormalTxs"
PhaseNormal == "BuildingNormalTxBatch"
PhaseProtoWithout == "BuildingProtocolTxBatch_WithoutNormalTxs"

\* ------------------------------------------------------------- txs
MkTx(kind, size, gas_limit, rate, token, payer, hash, inner, exp, sig, vext) ==
    [ kind |-> kind, size |-> size, gas_limit |-> gas_limit,
      amount_per_gas_unit |-> rate, token |-> token, payer |-> payer,
      hash |-> hash, inner |-> inner, expiration |-> exp, sig |-> sig,
      vext |-> vext ]

ProtocolTx(size, name) ==
    MkTx("Protocol", size, 0, 0, "NAM", "Val", name, name, None, TRUE, TRUE)

WrapperTx(size, gas_limit, rate, token, payer, hash, inner) ==
    MkTx("Wrapper", size, gas_limit, rate, token, payer, hash, inner, None,
         TRUE, FALSE)

RawTx(size, name) ==
    MkTx("Raw", size, 0, 0, "NAM", "A", name, name, None, TRUE, FALSE)

\* ------------------------------------------------------------- bins
\* A resource budget: { capacity, consumed }.
NewBin(capacity) == [ capacity |-> capacity, consumed |-> 0 ]

\* Mutant of try_consume: the room left is not compared with the amount.
try_consume_unchecked(b, amount) ==
    IF amount > b.capacity
    THEN [ res |-> "OverflowsBin", bin |-> b ]
    ELSE IF b.consumed <= b.capacity
         THEN [ res |-> "Ok", bin |-> [ b EXCEPT !.consumed = @ + amount ] ]
         ELSE [ res |-> "Rejected", bin |-> b ]

\* try_consume(amount): Ok adds the amount; OverflowsBin when the item alone
\* exceeds the bin's total capacity; Rejected when it exceeds what is left.
\* A failure returns the bin as it was.
try_consume(b, amount) ==
    IF amount > b.capacity
    THEN [ res |-> "OverflowsBin", bin |-> b ]
    ELSE IF b.consumed + amount <= b.capacity
         THEN [ res |-> "Ok", bin |-> [ b EXCEPT !.consumed = @ + amount ] ]
         ELSE [ res |-> "Rejected", bin |-> b ]

\* The allocator in its first state, from the committed block parameters:
\* block is the whole block space, spent what earlier phases consumed,
\* protocol_txs the bin of the running protocol phase, space and gas the
\* two bins of the normal-tx phase.
get_protocol_txs_allocator(st) ==
    [ block |-> st.max_bytes, spent |-> 0,
      protocol_txs |-> NewBin(st.protocol_bytes),
      space |-> NewBin(0), gas |-> NewBin(st.max_gas) ]

\* try_alloc in a protocol-tx phase: the tx's bytes against the protocol bin.
try_alloc_protocol(a, size) ==
    LET r == try_consume(a.protocol_txs, size)
    IN  [ res |-> r.res, alloc |-> [ a EXCEPT !.protocol_txs = r.bin ] ]

\* try_alloc in the normal-tx phase: bytes, then gas; a gas failure rolls
\* the byte allocation back.
try_alloc_normal(a, size, gas) ==
    LET s == try_consume(a.space, size)
        g == try_consume(a.gas, gas)
    IN  IF s.res # "Ok" THEN [ res |-> s.res, alloc |-> a ]
        ELSE IF g.res # "Ok" THEN [ res |-> g.res, alloc |-> a ]
        ELSE [ res |-> "Ok", alloc |-> [ a EXCEPT !.space = s.bin, !.gas = g.bin ] ]

\* next_state out of the first protocol phase: the normal-tx space bin gets
\* the block space the protocol txs left.
next_state_protocol(a) ==
    [ a EXCEPT !.spent = a.protocol_txs.consumed,
               !.space = NewBin(a.block - a.protocol_txs.consumed) ]

\* next_state out of the normal-tx phase: the final protocol bin gets what
\* is left of the block space.
next_state_normal(a) ==
    [ a EXCEPT !.spent = a.spent + a.space.consumed,
               !.protocol_txs = NewBin(a.block - (a.spent + a.space.consumed)) ]

\* ------------------------------------------------------------- admission gate
\* The filter of deserialize_vote_extensions: a decodable, valid vote
\* extension protocol tx.
is_vote_extension(tx) == tx.kind = "Protocol" /\ tx.vext

\* TryInto<DateTimeUtc> on the request's Timestamp: None when the request
\* has no time or the time does not convert (modelled as a negative value).
block_datetime(bt) == IF bt # None /\ bt[1] >= 0 THEN bt ELSE None

\* TxGasMeter::add_wrapper_gas: the gas charged for the wrapper's bytes.
wrapper_gas(tx) == tx.size

has_replay_protection_entry(st, ts, h) == h \in st.replay \/ h \in ts.replay

\* Mutant of replay_protection_checks: the inner hash is not looked up.
replay_protection_checks_wrapper_only(tx, st, ts) ==
    IF has_replay_protection_entry(st, ts, tx.hash)
    THEN [ ok |-> FALSE, state |-> ts ]
    ELSE [ ok |-> TRUE, state |-> [ ts EXCEPT !.replay = @ \cup { tx.hash } ] ]

\* Mutant of replay_protection_checks: the inner hash is looked up in the
\* write log as well, and written to it.
replay_protection_checks_inner_in_block(tx, st, ts) ==
    IF \/ has_replay_protection_entry(st, ts, tx.inner)
       \/ has_replay_protection_entry(st, ts, tx.hash)
    THEN [ ok |-> FALSE, state |-> ts ]
    ELSE [ ok |-> TRUE,
           state |-> [ ts EXCEPT !.replay = @ \cup { tx.hash, tx.inner } ] ]

\* replay_protection_checks: the inner hash against committed storage, the
\* wrapper hash against storage and write log; then the wrapper hash is
\* written to the write log.
replay_protection_checks(tx, st, ts) ==
    IF tx.inner \in st.replay \/ has_replay_protection_entry(st, ts, tx.hash)
    THEN [ ok |-> FALSE, state |-> ts ]
    ELSE [ ok |-> TRUE, state |-> [ ts EXCEPT !.replay = @ \cup { tx.hash } ] ]

\* Mutant of checked_fee: the product wraps around the Amount's width.
wrapping_fee(tx) ==
    Some((tx.amount_per_gas_unit * tx.gas_limit) % (AmountMax + 1))

\* Amount::checked_mul of the fee rate by the gas limit.
checked_fee(tx) ==
    LET f == tx.amount_per_gas_unit * tx.gas_limit
    IN  IF f > AmountMax THEN None ELSE Some(f)

\* Mutant of wrapper_fee_check: the rate is not compared with the minimum.
wrapper_fee_check_any_rate(tx, minimum_gas_price, ts) ==
    /\ checked_fee(tx) # None
    /\ ts.balances[<<tx.payer, tx.token>>] >= checked_fee(tx)[1]

\* wrapper_fee_check: the rate against the minimum, the total fee without
\* overflow, the payer's balance in the overlay.
wrapper_fee_check(tx, minimum_gas_price, ts) ==
    /\ tx.amount_per_gas_unit >= minimum_gas_price
    /\ checked_fee(tx) # None
    /\ ts.balances[<<tx.payer, tx.token>>] >= checked_fee(tx)[1]

\* Mutant of transfer_fee: the proposer is credited, the payer not debited.
transfer_fee_without_debit(tx, proposer, ts) ==
    LET fee == checked_fee(tx)[1]
    IN  IF ts.balances[<<proposer, tx.token>>] + fee > AmountMax
        THEN [ ok |-> FALSE, state |-> ts ]
        ELSE [ ok |-> TRUE,
               state |-> [ ts EXCEPT !.balances[<<proposer, tx.token>>] = @ + fee ] ]

\* transfer_fee: the fee from the payer to the block proposer; an error
\* when the proposer's balance would overflow.
transfer_fee(tx, proposer, ts) ==
    LET fee == checked_fee(tx)[1]
        debited == [ ts.balances EXCEPT ![<<tx.payer, tx.token>>] = @ - fee ]
    IN  IF debited[<<proposer, tx.token>>] + fee > AmountMax
        THEN [ ok |-> FALSE, state |-> ts ]
        ELSE [ ok |-> TRUE,
               state |-> [ ts EXCEPT !.balances =
                   [ debited EXCEPT ![<<proposer, tx.token>>] = @ + fee ] ] ]

\* Mutant of minimum_gas_price: the local configuration is not consulted.
minimum_gas_price_global_only(tx, local_config, st) ==
    IF tx.token \in DOMAIN st.gas_cost
    THEN Some(st.gas_cost[tx.token]) ELSE None

\* Mutant of minimum_gas_price: a token the local configuration does not
\* list falls back to the global gas cost parameter.
minimum_gas_price_with_fallback(tx, local_config, st) ==
    IF local_config # None /\ tx.token \in DOMAIN local_config[1]
    THEN Some(local_config[1][tx.token])
    ELSE IF tx.token \in DOMAIN st.gas_cost
         THEN Some(st.gas_cost[tx.token]) ELSE None

\* The minimum gas price: the local configuration when there is one, else
\* the global gas cost parameter; None when the token is not accepted.
minimum_gas_price(tx, local_config, st) ==
    IF local_config # None
    THEN IF tx.token \in DOMAIN local_config[1]
         THEN Some(local_config[1][tx.token]) ELSE None
    ELSE IF tx.token \in DOMAIN st.gas_cost
         THEN Some(st.gas_cost[tx.token]) ELSE None

prepare_proposal_fee_check(tx, proposer, local_config, st, ts) ==
    LET min == minimum_gas_price(tx, local_config, st)
    IN  IF min = None THEN [ ok |-> FALSE, state |-> ts ]
        ELSE IF ~wrapper_fee_check(tx, min[1], ts)
             THEN [ ok |-> FALSE, state |-> ts ]
             ELSE transfer_fee(tx, proposer, ts)

\* Mutant of is_expired: without a block time a tx with an expiration is
\* taken as expired.
is_expired_without_block_time(tx, bt) ==
    tx.expiration # None /\ (bt = None \/ bt[1] > tx.expiration[1])

\* Mutant of is_expired: a tx is expired at its expiration time already.
is_expired_at_expiration(tx, bt) ==
    bt # None /\ tx.expiration # None /\ bt[1] >= tx.expiration[1]

\* True when the expiration check rejects the tx.
is_expired(tx, bt) ==
    bt # None /\ tx.expiration # None /\ bt[1] > tx.expiration[1]

\* Mutant of validate_wrapper_bytes: the gas for the wrapper's bytes is
\* charged after the replay-protection and fee checks.
validate_wrapper_bytes_gas_charged_last(tx, bt, proposer, local_config, st, ts) ==
    LET err(s) == [ ok |-> FALSE, gas |-> 0, state |-> s ]
        rp == replay_protection_checks(tx, st, ts)
        fee == prepare_proposal_fee_check(tx, proposer, local_config, st, rp.state)
    IN  IF tx.kind = "Undecodable" THEN err(ts)
        ELSE IF is_expired(tx, bt) THEN err(ts)
        ELSE IF ~tx.sig THEN err(ts)
        ELSE IF tx.kind # "Wrapper" THEN err(ts)
        ELSE IF ~rp.ok THEN err(rp.state)
        ELSE IF ~fee.ok THEN err(fee.state)
        ELSE IF wrapper_gas(tx) > tx.gas_limit THEN err(fee.state)
        ELSE [ ok |-> TRUE, gas |-> tx.gas_limit, state |-> fee.state ]

\* Mutant of validate_wrapper_bytes: a tx that is not a wrapper is accepted
\* without gas.
validate_wrapper_bytes_any_type(tx, bt, proposer, local_config, st, ts) ==
    LET err(s) == [ ok |-> FALSE, gas |-> 0, state |-> s ]
        rp == replay_protection_checks(tx, st, ts)
        fee == prepare_proposal_fee_check(tx, proposer, local_config, st, rp.state)
    IN  IF tx.kind = "Undecodable" THEN err(ts)
        ELSE IF is_expired(tx, bt) THEN err(ts)
        ELSE IF ~tx.sig THEN err(ts)
        ELSE IF tx.kind # "Wrapper" THEN [ ok |-> TRUE, gas |-> 0, state |-> ts ]
        ELSE IF wrapper_gas(tx) > tx.gas_limit THEN err(ts)
        ELSE IF ~rp.ok THEN err(rp.state)
        ELSE IF ~fee.ok THEN err(fee.state)
        ELSE [ ok |-> TRUE, gas |-> tx.gas_limit, state |-> fee.state ]

\* Mutant of validate_wrapper_bytes: the result of the replay-protection
\* checks is not propagated.
validate_wrapper_bytes_ignoring_replay(tx, bt, proposer, local_config, st, ts) ==
    LET err(s) == [ ok |-> FALSE, gas |-> 0, state |-> s ]
        rp == replay_protection_checks(tx, st, ts)
        fee == prepare_proposal_fee_check(tx, proposer, local_config, st, rp.state)
    IN  IF tx.kind = "Undecodable" THEN err(ts)
        ELSE IF is_expired(tx, bt) THEN err(ts)
        ELSE IF ~tx.sig THEN err(ts)
        ELSE IF tx.kind # "Wrapper" THEN err(ts)
        ELSE IF wrapper_gas(tx) > tx.gas_limit THEN err(ts)
        ELSE IF ~fee.ok THEN err(fee.state)
        ELSE [ ok |-> TRUE, gas |-> tx.gas_limit, state |-> fee.state ]

\* validate_wrapper_bytes: Ok(gas limit) or Err(()), with the temp state as
\* the call leaves it (its pending writes included).
validate_wrapper_bytes(tx, bt, proposer, local_config, st, ts) ==
    LET err(s) == [ ok |-> FALSE, gas |-> 0, state |-> s ]
        rp == replay_protection_checks(tx, st, ts)
        fee == prepare_proposal_fee_check(tx, proposer, local_config, st, rp.state)
    IN  IF tx.kind = "Undecodable" THEN err(ts)
        ELSE IF is_expired(tx, bt) THEN err(ts)
        ELSE IF ~tx.sig THEN err(ts)
        ELSE IF tx.kind # "Wrapper" THEN err(ts)
        ELSE IF wrapper_gas(tx) > tx.gas_limit THEN err(ts)
        ELSE IF ~rp.ok THEN err(rp.state)
        ELSE IF ~fee.ok THEN err(fee.state)
        ELSE [ ok |-> TRUE, gas |-> tx.gas_limit, state |-> fee.state ]

\* Mutant of commit_or_drop: the writes of a dropped candidate are committed
\* as well.
always_commit(v, ts) == v.state

\* Mutant of commit_or_drop: the writes of an accepted candidate are dropped
\* as well.
always_drop(v, ts) == ts

\* commit_tx / drop_tx of the write log after a candidate was examined.
commit_or_drop(v, ts) == IF v.ok THEN v.state ELSE ts

\* The take_while closure's answer to a try_alloc result.
take_while_keeps(res) ==
    CASE res = "Ok" -> TRUE
      [] res = "Rejected" -> FALSE
      [] res = "OverflowsBin" -> TRUE

\* Mutant of append: the other vector's txs go in front.
prepend(v, other) == other \o v

\* Vec::append: the other vector's txs go after the ones already there.
append(v, other) == v \o other

\* Mutant of is_genesis: the guard is taken once a block was committed.
is_genesis_inverted(st) == st.last_block

\* Mutant of is_genesis: the genesis case is never recognised.
is_genesis_never(st) == FALSE

\* last_block.is_none(): no block has been committed yet.
is_genesis(st) == ~st.last_block

\* ------------------------------------------------------------- actions
\* The next index at or after `from` whose tx the vote-extension drain
\* yields; 0 when the drain is exhausted.
next_vote_extension(r, t, from) ==
    LET hits == { j \in from..Len(t) : is_vote_extension(r[t[j]]) }
    IN  IF hits = {} THEN 0 ELSE CHOOSE j \in hits : \A k \in hits : j <= k

InProtocolPhase == pc \in { PhaseProtoWith, PhaseProtoWithout }

LogEntry(phase, idx, verdict) ==
    [ phase |-> phase, idx |-> idx, verdict |-> verdict ]

\* Mutant of LeaveProtocolPhase: the first protocol phase hands over to the
\* last one, without a normal-tx phase in between.
LeaveProtocolPhaseSkippingNormal ==
    IF pc = PhaseProtoWith
    THEN /\ out' = batches[PhaseProtoWith]
         /\ alloc' = next_state_normal(next_state_protocol(alloc))
         /\ pc' = PhaseProtoWithout
    ELSE /\ out' = append(out, batches[PhaseProtoWithout])
         /\ alloc' = alloc
         /\ pc' = "done"

\* Leaving a protocol phase with the batch it collected: the first one
\* starts the txs vector and moves the allocator on, the last one ends
\* prepare_proposal.
LeaveProtocolPhase ==
    IF pc = PhaseProtoWith
    THEN /\ out' = batches[PhaseProtoWith]
         /\ alloc' = next_state_protocol(alloc)
         /\ pc' = PhaseNormal
    ELSE /\ out' = append(out, batches[PhaseProtoWithout])
         /\ alloc' = alloc
         /\ pc' = "done"

\* Mutant of NotValidator: the mempool list is returned as it came.
NotValidatorReturningMempool ==
    /\ pc = "start"
    /\ ~mode.validator
    /\ out' = txs
    /\ pc' = "done"
    /\ UNCHANGED << req, block_time, mode, storage, txs, cursor, halted, alloc,
                    temp_state, batches, log, bin, bin_call, returned,
                    inflation_call, vp_call, amount_call >>

\* prepare_proposal on a node that is not a validator: vec![].
NotValidator ==
    /\ pc = "start"
    /\ ~mode.validator
    /\ out' = <<>>
    /\ pc' = "done"
    /\ UNCHANGED << req, block_time, mode, storage, txs, cursor, halted, alloc,
                    temp_state, batches, log, bin, bin_call,
                    returned,
                    inflation_call, vp_call, amount_call >>

\* prepare_proposal on a validator: the allocator's first state.
StartProposal ==
    /\ pc = "start"
    /\ mode.validator
    /\ alloc' = get_protocol_txs_allocator(storage)
    /\ pc' = PhaseProtoWith
    /\ cursor' = 1
    /\ halted' = FALSE
    /\ UNCHANGED << req, block_time, mode, storage, txs, temp_state, batches,
                    out, log, bin, bin_call,
                    returned,
                    inflation_call, vp_call, amount_call >>

\* build_protocol_txs before any block was committed: (alloc, vec![]).
ProtocolGenesis ==
    /\ InProtocolPhase
    /\ is_genesis(storage)
    /\ LeaveProtocolPhase
    /\ cursor' = 1
    /\ halted' = FALSE
    /\ UNCHANGED << req, block_time, mode, storage, txs, temp_state, batches,
                    log, bin, bin_call,
                    returned,
                    inflation_call, vp_call, amount_call >>

\* Mutant of ProtocolStep: the list is iterated, not drained, so that an
\* admitted protocol tx stays in it.
ProtocolStepWithoutDrain ==
    /\ InProtocolPhase
    /\ ~is_genesis(storage)
    /\ ~halted
    /\ next_vote_extension(req, txs, cursor) # 0
    /\ LET j == next_vote_extension(req, txs, cursor)
           i == txs[j]
           r == try_alloc_protocol(alloc, req[i].size)
       IN  /\ txs' = txs
           /\ cursor' = j + 1
           /\ alloc' = r.alloc
           /\ halted' = ~take_while_keeps(r.res)
           /\ batches' = IF take_while_keeps(r.res)
                         THEN [ batches EXCEPT ![pc] = Append(@, i) ]
                         ELSE batches
           /\ log' = Append(log, LogEntry(pc, i, r.res))
    /\ UNCHANGED << req, block_time, mode, storage, pc, temp_state, out, bin,
                    bin_call,
                    returned,
                    inflation_call, vp_call, amount_call >>

\* Mutant of ProtocolStep: the hash of the protocol tx is written to the
\* temp write log.
ProtocolStepWritingOverlay ==
    /\ InProtocolPhase
    /\ ~is_genesis(storage)
    /\ ~halted
    /\ next_vote_extension(req, txs, cursor) # 0
    /\ LET j == next_vote_extension(req, txs, cursor)
           i == txs[j]
           r == try_alloc_protocol(alloc, req[i].size)
       IN  /\ txs' = RemoveAt(txs, j)
           /\ cursor' = j
           /\ alloc' = r.alloc
           /\ halted' = ~take_while_keeps(r.res)
           /\ batches' = IF take_while_keeps(r.res)
                         THEN [ batches EXCEPT ![pc] = Append(@, i) ]
                         ELSE batches
           /\ log' = Append(log, LogEntry(pc, i, r.res))
           /\ temp_state' = [ temp_state EXCEPT !.replay = @ \cup { req[i].hash } ]
    /\ UNCHANGED << req, block_time, mode, storage, pc, out, bin,
                    bin_call,
                    returned,
                    inflation_call, vp_call, amount_call >>

\* One item of build_protocol_txs' take_while: the drain yields the next
\* vote extension (removing it from txs) and the allocator is asked.
ProtocolStep ==
    /\ InProtocolPhase
    /\ ~is_genesis(storage)
    /\ ~halted
    /\ next_vote_extension(req, txs, cursor) # 0
    /\ LET j == next_vote_extension(req, txs, cursor)
           i == txs[j]
           r == try_alloc_protocol(alloc, req[i].size)
       IN  /\ txs' = RemoveAt(txs, j)
           /\ cursor' = j
           /\ alloc' = r.alloc
           /\ halted' = ~take_while_keeps(r.res)
           /\ batches' = IF take_while_keeps(r.res)
                         THEN [ batches EXCEPT ![pc] = Append(@, i) ]
                         ELSE batches
           /\ log' = Append(log, LogEntry(pc, i, r.res))
    /\ UNCHANGED << req, block_time, mode, storage, pc, temp_state, out, bin,
                    bin_call,
                    returned,
                    inflation_call, vp_call, amount_call >>

\* Mutant of ProtocolEnd: the batch may be collected before the scan ended.
ProtocolEndAtAnyTime ==
    /\ InProtocolPhase
    /\ ~is_genesis(storage)
    /\ LeaveProtocolPhase
    /\ cursor' = 1
    /\ halted' = FALSE
    /\ UNCHANGED << req, block_time, mode, storage, txs, temp_state, batches,
                    log, bin, bin_call,
                    returned,
                    inflation_call, vp_call, amount_call >>

\* The end of build_protocol_txs: collect is done, keep_rest leaves what
\* the drain did not yield in txs.
ProtocolEnd ==
    /\ InProtocolPhase
    /\ ~is_genesis(storage)
    /\ halted \/ next_vote_extension(req, txs, cursor) = 0
    /\ LeaveProtocolPhase
    /\ cursor' = 1
    /\ halted' = FALSE
    /\ UNCHANGED << req, block_time, mode, storage, txs, temp_state, batches,
                    log, bin, bin_call,
                    returned,
                    inflation_call, vp_call, amount_call >>

\* Mutant of NormalStep: a candidate the allocator refuses is left out and
\* the scan goes on (filter in place of take_while).
NormalStepFilteringRefused ==
    /\ pc = PhaseNormal
    /\ ~halted
    /\ cursor <= Len(txs)
    /\ LET i == txs[cursor]
           v == validate_wrapper_bytes(req[i], block_datetime(block_time),
                    Proposer, mode.local_config, storage, temp_state)
           r == try_alloc_normal(alloc, req[i].size, v.gas)
       IN  /\ temp_state' = commit_or_drop(v, temp_state)
           /\ cursor' = cursor + 1
           /\ IF v.ok
              THEN /\ alloc' = r.alloc
                   /\ halted' = FALSE
                   /\ batches' = IF take_while_keeps(r.res)
                                 THEN [ batches EXCEPT ![pc] = Append(@, i) ]
                                 ELSE batches
                   /\ log' = Append(log, LogEntry(pc, i, r.res))
              ELSE /\ UNCHANGED << alloc, halted, batches >>
                   /\ log' = Append(log, LogEntry(pc, i, "Err"))
    /\ UNCHANGED << req, block_time, mode, storage, pc, txs, out, bin,
                    bin_call,
                    returned,
                    inflation_call, vp_call, amount_call >>

\* Mutant of NormalStep: the list is iterated from its end.
NormalStepFromTheEnd ==
    /\ pc = PhaseNormal
    /\ ~halted
    /\ cursor <= Len(txs)
    /\ LET i == txs[Len(txs) + 1 - cursor]
           v == validate_wrapper_bytes(req[i], block_datetime(block_time),
                    Proposer, mode.local_config, storage, temp_state)
           r == try_alloc_normal(alloc, req[i].size, v.gas)
       IN  /\ temp_state' = commit_or_drop(v, temp_state)
           /\ cursor' = cursor + 1
           /\ IF v.ok
              THEN /\ alloc' = r.alloc
                   /\ halted' = ~take_while_keeps(r.res)
                   /\ batches' = IF take_while_keeps(r.res)
                                 THEN [ batches EXCEPT ![pc] = Append(@, i) ]
                                 ELSE batches
                   /\ log' = Append(log, LogEntry(pc, i, r.res))
              ELSE /\ UNCHANGED << alloc, halted, batches >>
                   /\ log' = Append(log, LogEntry(pc, i, "Err"))
    /\ UNCHANGED << req, block_time, mode, storage, pc, txs, out, bin,
                    bin_call,
                    returned,
                    inflation_call, vp_call, amount_call >>

\* Mutant of NormalStep: a candidate that fails validation ends the scan.
NormalStepStoppingOnError ==
    /\ pc = PhaseNormal
    /\ ~halted
    /\ cursor <= Len(txs)
    /\ LET i == txs[cursor]
           v == validate_wrapper_bytes(req[i], block_datetime(block_time),
                    Proposer, mode.local_config, storage, temp_state)
           r == try_alloc_normal(alloc, req[i].size, v.gas)
       IN  /\ temp_state' = commit_or_drop(v, temp_state)
           /\ cursor' = cursor + 1
           /\ IF v.ok
              THEN /\ alloc' = r.alloc
                   /\ halted' = ~take_while_keeps(r.res)
                   /\ batches' = IF take_while_keeps(r.res)
                                 THEN [ batches EXCEPT ![pc] = Append(@, i) ]
                                 ELSE batches
                   /\ log' = Append(log, LogEntry(pc, i, r.res))
              ELSE /\ UNCHANGED << alloc, batches >>
                   /\ halted' = TRUE
                   /\ log' = Append(log, LogEntry(pc, i, "Err"))
    /\ UNCHANGED << req, block_time, mode, storage, pc, txs, out, bin,
                    bin_call,
                    returned,
                    inflation_call, vp_call, amount_call >>

\* One item of build_normal_txs' iterator chain: filter_map validates the
\* next tx and commits or drops its writes; what passes is offered to the
\* allocator by take_while.
NormalStep ==
    /\ pc = PhaseNormal
    /\ ~halted
    /\ cursor <= Len(txs)
    /\ LET i == txs[cursor]
           v == validate_wrapper_bytes(req[i], block_datetime(block_time),
                    Proposer, mode.local_config, storage, temp_state)
           r == try_alloc_normal(alloc, req[i].size, v.gas)
       IN  /\ temp_state' = commit_or_drop(v, temp_state)
           /\ cursor' = cursor + 1
           /\ IF v.ok
              THEN /\ alloc' = r.alloc
                   /\ halted' = ~take_while_keeps(r.res)
                   /\ batches' = IF take_while_keeps(r.res)
                                 THEN [ batches EXCEPT ![pc] = Append(@, i) ]
                                 ELSE batches
                   /\ log' = Append(log, LogEntry(pc, i, r.res))
              ELSE /\ UNCHANGED << alloc, halted, batches >>
                   /\ log' = Append(log, LogEntry(pc, i, "Err"))
    /\ UNCHANGED << req, block_time, mode, storage, pc, txs, out, bin,
                    bin_call,
                    returned,
                    inflation_call, vp_call, amount_call >>

\* The end of build_normal_txs: the batch is appended and the allocator
\* moves to its last state.
NormalEnd ==
    /\ pc = PhaseNormal
    /\ halted \/ cursor > Len(txs)
    /\ out' = append(out, batches[PhaseNormal])
    /\ alloc' = next_state_normal(alloc)
    /\ pc' = PhaseProtoWithout
    /\ cursor' = 1
    /\ halted' = FALSE
    /\ UNCHANGED << req, block_time, mode, storage, txs, temp_state, batches,
                    log, bin, bin_call,
                    returned,
                    inflation_call, vp_call, amount_call >>

Next ==
    \/ NotValidator
    \/ StartProposal
    \/ ProtocolGenesis
    \/ ProtocolStep
    \/ ProtocolEnd
    \/ NormalStep
    \/ NormalEnd

\* ------------------------------------------------------------- initial states
NoBalances == [ k \in Addresses \X Tokens |-> 0 ]

GlobalGasCost == [ t \in { "NAM", "BTC" } |-> 1 ]

\* The state every call starts in, for a given request and committed state.
InitProposal(r, bt, m, st) ==
    /\ req = r
    /\ block_time = bt
    /\ mode = m
    /\ storage = st
    /\ pc = "start"
    /\ txs = [ k \in 1..Len(r) |-> k ]
    /\ cursor = 1
    /\ halted = FALSE
    /\ alloc = get_protocol_txs_allocator(st)
    /\ temp_state = [ balances |-> st.balances, replay |-> {} ]
    /\ batches = [ ph \in { PhaseProtoWith, PhaseNormal, PhaseProtoWithout } |-> <<>> ]
    /\ out = <<>>
    /\ log = <<>>
    /\ returned = <<>>
    /\ inflation_call = None
    /\ vp_call = None
    /\ amount_call = None

NoCall == [ amount |-> 0, res |-> "Ok", before |-> 0 ]

\* The single Bin is not part of a proposal.
IdleBin == bin = NewBin(0) /\ bin_call = NoCall

\* Txs of the allocation scenarios: protocol txs of 1, 2 and 3 bytes, and
\* wrappers that differ in size and gas limit.
AllocTxs ==
    { ProtocolTx(1, "p1"), ProtocolTx(2, "p2"), ProtocolTx(3, "p3"),
      WrapperTx(1, 2, 1, "NAM", "A", "h1", "i1"),
      WrapperTx(2, 2, 1, "NAM", "B", "h2", "i2"),
      WrapperTx(1, 4, 1, "NAM", "A", "h3", "i3") }

AllocStorages ==
    { [ last_block |-> lb, max_bytes |-> 4, max_gas |-> 3,
        protocol_bytes |-> pb,
        balances |-> [ NoBalances EXCEPT ![<<"A", "NAM">>] = 8,
                                         ![<<"B", "NAM">>] = 8 ],
        replay |-> {}, gas_cost |-> GlobalGasCost ]
      : lb \in BOOLEAN, pb \in { 2, 4 } }

Init ==
    \E r \in SeqsUpTo(AllocTxs, MaxLen), st \in AllocStorages, v \in BOOLEAN :
        /\ InitProposal(r, None, [ validator |-> v, local_config |-> None ], st)
        /\ IdleBin

Spec == Init /\ [][Next]_vars

\* Txs of the admission scenarios: wrappers W1 and W2 wrap the same inner
\* tx for different payers, a third wrapper is paid by the block proposer,
\* next to a raw tx and a protocol tx.
AdmitTxs ==
    { WrapperTx(1, 2, 1, "NAM", "A", "h1", "i1"),
      WrapperTx(1, 2, 1, "NAM", "B", "h2", "i1"),
      WrapperTx(1, 2, 1, "NAM", "Val", "h3", "i3"),
      RawTx(1, "r1"),
      ProtocolTx(1, "p1") }

AdmitStorages ==
    { [ last_block |-> lb, max_bytes |-> 4, max_gas |-> 4,
        protocol_bytes |-> 2,
        balances |-> [ NoBalances EXCEPT ![<<"A", "NAM">>] = 3,
                                         ![<<"B", "NAM">>] = 8 ],
        replay |-> rp, gas_cost |-> GlobalGasCost ]
      : lb \in BOOLEAN, rp \in { {}, { "h1" }, { "i1" } } }

InitAdmit ==
    \E r \in SeqsUpTo(AdmitTxs, MaxLen), st \in AdmitStorages, v \in BOOLEAN :
        /\ InitProposal(r, None, [ validator |-> v, local_config |-> None ], st)
        /\ IdleBin

SpecAdmit == InitAdmit /\ [][Next]_vars

\* Txs of the fee scenarios: payer A sends wrappers f1, f2 (fee 2 each) and
\* f3 (rate 2, fee 4) in NAM, f4 in BTC and f5 in APFEL, a token without a
\* global gas cost; payer B sends f6, whose total fee overflows the Amount,
\* and f7, which offers a rate of 0; the block proposer itself pays f8.
FeeTxs ==
    { WrapperTx(1, 2, 1, "NAM", "A", "f1", "j1"),
      WrapperTx(1, 2, 1, "NAM", "A", "f2", "j2"),
      WrapperTx(1, 2, 2, "NAM", "A", "f3", "j3"),
      WrapperTx(1, 2, 1, "BTC", "A", "f4", "j4"),
      WrapperTx(1, 2, 1, "APFEL", "A", "f5", "j5"),
      WrapperTx(1, 2, AmountMax, "NAM", "B", "f6", "j6"),
      WrapperTx(1, 2, 0, "NAM", "B", "f7", "j7"),
      WrapperTx(1, 2, 1, "NAM", "Val", "f8", "j8"),
      ProtocolTx(1, "p1") }

FeeStorages ==
    { [ last_block |-> lb, max_bytes |-> 4, max_gas |-> 8,
        protocol_bytes |-> 2,
        balances |-> [ NoBalances EXCEPT ![<<"A", "NAM">>] = 5,
                                         ![<<"A", "BTC">>] = 3,
                                         ![<<"A", "APFEL">>] = 3,
                                         ![<<"B", "NAM">>] = AmountMax ],
        replay |-> {}, gas_cost |-> GlobalGasCost ]
      : lb \in BOOLEAN }

\* ValidatorLocalConfig.accepted_gas_tokens: absent, NAM alone at a rate of
\* 2, or NAM and APFEL at a rate of 1.
LocalConfigs ==
    { None,
      Some([ t \in { "NAM" } |-> 2 ]),
      Some([ t \in { "NAM", "APFEL" } |-> 1 ]) }

InitFee ==
    \E r \in SeqsUpTo(FeeTxs, MaxLen - 1), st \in FeeStorages, v \in BOOLEAN,
       lc \in LocalConfigs :
        /\ InitProposal(r, None, [ validator |-> v, local_config |-> lc ], st)
        /\ IdleBin

SpecFee == InitFee /\ [][Next]_vars

\* A tx with an expiration.
Expiring(tx, exp) == [ tx EXCEPT !.expiration = Some(exp) ]

\* Txs of the expiration scenarios: wrappers that expire at 1, 2 and 3 and
\* one that never does, a raw tx that expires at 1 and a protocol tx.
ExpiryTxs ==
    { Expiring(WrapperTx(1, 2, 1, "NAM", "A", "e1", "k1"), 1),
      Expiring(WrapperTx(1, 2, 1, "NAM", "A", "e2", "k2"), 2),
      Expiring(WrapperTx(1, 2, 1, "NAM", "A", "e3", "k3"), 3),
      WrapperTx(1, 2, 1, "NAM", "A", "e0", "k0"),
      Expiring(RawTx(1, "r1"), 1),
      ProtocolTx(1, "p1") }

ExpiryStorages ==
    { [ last_block |-> lb, max_bytes |-> 4, max_gas |-> 8,
        protocol_bytes |-> 2,
        balances |-> [ NoBalances EXCEPT ![<<"A", "NAM">>] = AmountMax ],
        replay |-> {}, gas_cost |-> GlobalGasCost ]
      : lb \in BOOLEAN }

\* RequestPrepareProposal.time: absent, not convertible to a DateTimeUtc
\* (a negative value), or the times 2 and 3.
BlockTimes == { None, Some(-1), Some(2), Some(3) }

InitExpiry ==
    \E r \in SeqsUpTo(ExpiryTxs, MaxLen - 1), st \in ExpiryStorages,
       v \in BOOLEAN, bt \in BlockTimes :
        /\ InitProposal(r, bt, [ validator |-> v, local_config |-> None ], st)
        /\ IdleBin

SpecExpiry == InitExpiry /\ [][Next]_vars

\* Bytes that Tx::try_from does not decode.
UndecodableTx(size, name) ==
    MkTx("Undecodable", size, 0, 0, "NAM", "A", name, name, None, FALSE, FALSE)

\* A tx whose signature validate_tx refuses.
Unsigned(tx) == [ tx EXCEPT !.sig = FALSE ]

\* Txs of the gate scenarios, at block time 2: wrappers g1 and g9 are
\* valid; g2 declares less gas than its bytes cost, g3 has an invalid
\* signature, g6 expired at 1, g7 has its hash committed, g8 pays in a
\* token its payer does not hold; next to bytes that do not decode, a raw
\* tx and a protocol tx.
GateTxs ==
    { WrapperTx(1, 2, 1, "NAM", "A", "g1", "m1"),
      WrapperTx(2, 1, 1, "NAM", "A", "g2", "m2"),
      Unsigned(WrapperTx(1, 2, 1, "NAM", "B", "g3", "m3")),
      UndecodableTx(1, "u1"),
      RawTx(1, "r1"),
      Expiring(WrapperTx(1, 2, 1, "NAM", "B", "g6", "m6"), 1),
      WrapperTx(1, 2, 1, "NAM", "B", "g7", "m7"),
      WrapperTx(1, 2, 1, "BTC", "B", "g8", "m8"),
      WrapperTx(1, 2, 1, "NAM", "B", "g9", "m9"),
      ProtocolTx(1, "p1") }

GateStorages ==
    { [ last_block |-> lb, max_bytes |-> 4, max_gas |-> 8,
        protocol_bytes |-> 2,
        balances |-> [ NoBalances EXCEPT ![<<"A", "NAM">>] = 8,
                                         ![<<"B", "NAM">>] = 8 ],
        replay |-> { "g7" }, gas_cost |-> GlobalGasCost ]
      : lb \in BOOLEAN }

InitGate ==
    \E r \in SeqsUpTo(GateTxs, MaxLen - 1), st \in GateStorages, v \in BOOLEAN :
        /\ InitProposal(r, Some(2), [ validator |-> v, local_config |-> None ], st)
        /\ IdleBin

SpecGate == InitGate /\ [][Next]_vars

\* ------------------------------------------------------------- successive calls
\* Mutant of Respond: the temp write log is flushed to storage on return.
RespondFlushingOverlay ==
    /\ pc = "done"
    /\ Len(returned) < MaxCalls
    /\ returned' = Append(returned, out)
    /\ storage' = [ storage EXCEPT !.balances = temp_state.balances,
                                   !.replay = @ \cup temp_state.replay ]
    /\ IF Len(returned) + 1 < MaxCalls
       THEN /\ pc' = "start"
            /\ txs' = [ k \in 1..Len(req) |-> k ]
            /\ cursor' = 1
            /\ halted' = FALSE
            /\ alloc' = get_protocol_txs_allocator(storage')
            /\ temp_state' = [ balances |-> storage'.balances, replay |-> {} ]
            /\ batches' = [ ph \in DOMAIN batches |-> <<>> ]
            /\ out' = <<>>
            /\ log' = <<>>
       ELSE UNCHANGED << pc, txs, cursor, halted, alloc, temp_state, batches,
                         out, log >>
    /\ UNCHANGED << req, block_time, mode, bin, bin_call,
                    inflation_call, vp_call, amount_call >>

\* prepare_proposal returns response::PrepareProposal { txs }; the request
\* and the temp write log of the call are gone with it. The next call
\* receives the same request and starts from the committed state.
Respond ==
    /\ pc = "done"
    /\ Len(returned) < MaxCalls
    /\ returned' = Append(returned, out)
    /\ IF Len(returned) + 1 < MaxCalls
       THEN /\ pc' = "start"
            /\ txs' = [ k \in 1..Len(req) |-> k ]
            /\ cursor' = 1
            /\ halted' = FALSE
            /\ alloc' = get_protocol_txs_allocator(storage)
            /\ temp_state' = [ balances |-> storage.balances, replay |-> {} ]
            /\ batches' = [ ph \in DOMAIN batches |-> <<>> ]
            /\ out' = <<>>
            /\ log' = <<>>
       ELSE UNCHANGED << pc, txs, cursor, halted, alloc, temp_state, batches,
                         out, log >>
    /\ UNCHANGED << req, block_time, mode, storage, bin, bin_call,
                    inflation_call, vp_call, amount_call >>

NextCalls ==
    \/ Next
    \/ Respond

InitCalls ==
    \E r \in SeqsUpTo(AdmitTxs, MaxLen - 1), st \in AdmitStorages, v \in BOOLEAN :
        /\ InitProposal(r, None, [ validator |-> v, local_config |-> None ], st)
        /\ IdleBin

SpecCalls == InitCalls /\ [][NextCalls]_vars

\* ------------------------------------------------------------- a single Bin
\* One try_consume call on the Bin, with any amount.
TryConsumeCall ==
    /\ \E amount \in 0..(MaxCap + 1) :
        LET r == try_consume(bin, amount)
        IN  /\ bin' = r.bin
            /\ bin_call' = [ amount |-> amount, res |-> r.res,
                             before |-> bin.consumed ]
    /\ UNCHANGED << proposalVars, inflation_call, vp_call, amount_call >>

\* A Bin of any capacity; no proposal is under construction meanwhile.
InitBin ==
    \E capacity \in 0..MaxCap :
        /\ InitProposal(<<>>, None, [ validator |-> FALSE, local_config |-> None ],
                        CHOOSE st \in AllocStorages : TRUE)
        /\ bin = NewBin(capacity)
        /\ bin_call = NoCall

SpecBin == InitBin /\ [][TryConsumeCall]_vars

\* ------------------------------------------------------------- claims
Done == pc = "done"

Phases == { PhaseProtoWith, PhaseNormal, PhaseProtoWithout }

\* C1: the returned proposal respects the block budget: the byte sizes of
\* the returned txs sum to at most max_bytes, and the gas limits of the
\* returned normal txs sum to at most max_gas.
C1_BlockBudget ==
    Done =>
        /\ SumSize(out, req) <= storage.max_bytes
        /\ SumGas(batches[PhaseNormal], req) <= storage.max_gas

\* C2: in every phase a candidate on which try_alloc returns OverflowsBin
\* is left out of the batch and the scan goes on, and the first candidate
\* on which it returns Rejected is left out and ends the phase's scan; with
\* a bin of capacity 2 and sizes [3, 1, 2] exactly the second is admitted.
C2_OverflowSkippedRejectedStops ==
    /\ \A k \in 1..Len(log) :
        /\ log[k].verdict = "OverflowsBin" =>
              /\ log[k].idx \notin Range(batches[log[k].phase])
              /\ (k = Len(log) /\ pc = log[k].phase) => ~halted
        /\ log[k].verdict = "Rejected" =>
              /\ log[k].idx \notin Range(batches[log[k].phase])
              /\ \A m \in (k + 1)..Len(log) : log[m].phase # log[k].phase
    /\ ( /\ req = << ProtocolTx(3, "p3"), ProtocolTx(1, "p1"), ProtocolTx(2, "p2") >>
         /\ storage.protocol_bytes = 2
         /\ ~is_genesis(storage)
         /\ pc = PhaseNormal )
       => batches[PhaseProtoWith] = << 2 >>

\* C3: a wrapper whose gas limit exceeds the block's max gas is never in
\* the returned proposal.
C3_NoWrapperAboveMaxBlockGas ==
    Done =>
        \A i \in Range(out) :
            req[i].kind = "Wrapper" => req[i].gas_limit <= storage.max_gas

\* The log entries of one phase, in order.
LogOf(phase) == SelectSeq(log, LAMBDA e : e.phase = phase)

\* C4: on a Bin, consumed never exceeds capacity, a successful try_consume
\* adds exactly the requested amount and a failed one leaves consumed as
\* it was.
C4_BinBudget ==
    /\ bin.consumed <= bin.capacity
    /\ bin_call.res = "Ok" => bin.consumed = bin_call.before + bin_call.amount
    /\ bin_call.res \in { "Rejected", "OverflowsBin" } =>
          bin.consumed = bin_call.before

C4_Witness ==
    /\ bin_call.res = "Rejected"
    /\ bin_call.before > 0
    /\ bin_call.amount <= bin.capacity

\* C5: in the normal-tx phase a candidate is admitted only if both its
\* byte and its gas allocation succeeded, and a failed allocation leaves
\* nothing behind in the byte bin: what the two bins hold consumed is
\* exactly the bytes and the gas of the admitted candidates.
C5_NormalAllocAtomic ==
    pc \in { PhaseNormal, PhaseProtoWithout, "done" } =>
        /\ \A k \in 1..Len(log) :
              (log[k].phase = PhaseNormal
                 /\ log[k].idx \in Range(batches[PhaseNormal]))
              => log[k].verdict = "Ok"
        /\ alloc.space.consumed = SumSize(batches[PhaseNormal], req)
        /\ alloc.gas.consumed = SumGas(batches[PhaseNormal], req)

C7_UnadmittedProtocolTxsKept ==
    \A k \in 1..Len(log) :
        ( /\ log[k].phase = PhaseProtoWith
          /\ log[k].idx \notin Range(batches[PhaseProtoWith]) ) =>
            /\ (pc = PhaseProtoWithout /\ LogOf(PhaseProtoWithout) = <<>>)
                  => log[k].idx \in Range(txs)
            /\ Done =>
                  \E m \in 1..Len(log) :
                      /\ log[m].phase = PhaseProtoWithout
                      /\ log[m].idx = log[k].idx \/ log[m].verdict = "Rejected"

\* C8: the returned list is the phase-1 protocol batch, then the normal
\* batch, then the phase-3 protocol batch.
C8_ProposalOrder ==
    Done =>
        LET p1 == batches[PhaseProtoWith]
            n == batches[PhaseNormal]
            p3 == batches[PhaseProtoWithout]
        IN  /\ Len(out) = Len(p1) + Len(n) + Len(p3)
            /\ \A k \in 1..Len(p1) : out[k] = p1[k]
            /\ \A k \in 1..Len(n) : out[Len(p1) + k] = n[k]
            /\ \A k \in 1..Len(p3) : out[Len(p1) + Len(n) + k] = p3[k]

C8_Witness ==
    /\ Done
    /\ batches[PhaseProtoWith] # <<>>
    /\ batches[PhaseNormal] # <<>>
    /\ batches[PhaseProtoWithout] # <<>>

\* Positions a < b of the request that hold the same wrapper bytes.
SameWrapper(a, b) ==
    /\ a \in 1..Len(req) /\ b \in 1..Len(req)
    /\ a < b
    /\ req[a] = req[b]
    /\ req[a].kind = "Wrapper"

\* The verdicts the normal-tx phase logged for request position i.
VerdictsOf(i) ==
    { log[k].verdict : k \in { m \in 1..Len(log) :
                                 log[m].phase = PhaseNormal /\ log[m].idx = i } }

\* C9 as claimed: of two byte-identical wrappers at most one is admitted,
\* and it is the first of the list.
C9_OnlyFirstCopyAdmitted ==
    Done =>
        \A a, b \in 1..Len(req) :
            SameWrapper(a, b) => b \notin Range(out)

\* C9 as amended: of two byte-identical wrappers at most one is admitted,
\* and once a copy has passed the admission gate every later copy that is
\* examined is dropped by the gate.
C9_AtMostOneCopyAdmitted ==
    \A a, b \in 1..Len(req) :
        SameWrapper(a, b) =>
            /\ ~(a \in Range(out) /\ b \in Range(out))
            /\ ~(a \in Range(batches[PhaseNormal])
                   /\ b \in Range(batches[PhaseNormal]))
            /\ (VerdictsOf(a) # {} /\ "Err" \notin VerdictsOf(a))
                  => VerdictsOf(b) \subseteq { "Err" }

C9_Witness ==
    /\ Done
    /\ \E a, b \in 1..Len(req) :
          /\ SameWrapper(a, b)
          /\ a \in Range(out)
          /\ VerdictsOf(b) = { "Err" }

\* C10: a wrapper whose header hash is in the committed replay-protection
\* key space is never in a batch nor in the returned proposal.
C10_CommittedWrapperHashDropped ==
    \A i \in Range(out) \cup Range(batches[PhaseNormal]) :
        req[i].kind = "Wrapper" => req[i].hash \notin storage.replay

C10_Witness ==
    /\ Done
    /\ mode.validator
    /\ \E k \in 1..Len(req) :
          /\ req[k].kind = "Wrapper"
          /\ req[k].hash \in storage.replay
          /\ req[k].inner \notin storage.replay
          /\ req[k].amount_per_gas_unit * req[k].gas_limit
                <= storage.balances[<<req[k].payer, req[k].token>>]
          /\ VerdictsOf(k) = { "Err" }

\* C11: a wrapper whose inner (raw header) hash is in the committed
\* replay-protection key space is never in a batch nor in the returned
\* proposal, whatever its wrapper header hash.
C11_CommittedInnerHashDropped ==
    \A i \in Range(out) \cup Range(batches[PhaseNormal]) :
        req[i].kind = "Wrapper" => req[i].inner \notin storage.replay

C11_Witness ==
    /\ Done
    /\ mode.validator
    /\ \E k \in 1..Len(req) :
          /\ req[k].kind = "Wrapper"
          /\ req[k].inner \in storage.replay
          /\ req[k].hash \notin storage.replay
          /\ \A m \in 1..(k - 1) : req[m].kind # "Wrapper"
          /\ req[k].amount_per_gas_unit * req[k].gas_limit
                <= storage.balances[<<req[k].payer, req[k].token>>]
          /\ VerdictsOf(k) = { "Err" }

\* Positions a and b of the request hold two different wrappers (different
\* header hashes, different fee payers) of the same inner tx.
SameInner(a, b) ==
    /\ a \in 1..Len(req) /\ b \in 1..Len(req)
    /\ a # b
    /\ req[a].kind = "Wrapper" /\ req[b].kind = "Wrapper"
    /\ req[a].inner = req[b].inner
    /\ req[a].hash # req[b].hash
    /\ req[a].payer # req[b].payer

\* The wrapper at position k is new to the committed replay-protection key
\* space and its payer's committed balance covers its total fee.
FreshAndFunded(k) ==
    /\ req[k].hash \notin storage.replay
    /\ req[k].inner \notin storage.replay
    /\ req[k].amount_per_gas_unit * req[k].gas_limit
          <= storage.balances[<<req[k].payer, req[k].token>>]

\* C12: two different wrappers of the same inner tx, both fresh and funded
\* and the only wrappers of the request (so that both fit the block), are
\* both in the returned proposal.
C12_SameInnerBothIncluded ==
    (Done /\ mode.validator) =>
        \A a, b \in 1..Len(req) :
            ( /\ SameInner(a, b)
              /\ FreshAndFunded(a) /\ FreshAndFunded(b)
              /\ \A k \in 1..Len(req) :
                    k \notin { a, b } => req[k].kind # "Wrapper" )
            => { a, b } \subseteq Range(out)

C12_Witness ==
    /\ Done
    /\ \E a, b \in 1..Len(req) :
          /\ SameInner(a, b)
          /\ a < b
          /\ VerdictsOf(a) = { "Ok" }
          /\ VerdictsOf(b) = { "Ok" }
          /\ { a, b } \subseteq Range(out)

\* The step is the normal-tx phase examining request position i, with
\* verdict v logged for it.
Examined(i, v) ==
    /\ pc = PhaseNormal
    /\ Len(log') = Len(log) + 1
    /\ log'[Len(log')] = LogEntry(PhaseNormal, i, v)

\* The step is the admission gate letting request position i through.
PassedGate(i) ==
    \E v \in { "Ok", "Rejected", "OverflowsBin" } : Examined(i, v)

TotalFee(tx) == tx.amount_per_gas_unit * tx.gas_limit

BalanceOf(ts, owner, token) == ts.balances[<<owner, token>>]

C14_DroppedCandidateLeavesNoWrite ==
    [][ \A i \in 1..Len(req) :
          Examined(i, "Err") => temp_state' = temp_state
      ]_vars

\* The gate dropped the wrapper at position k after its replay-protection
\* entry had been written: for its rate, its token or its payer's balance.
DroppedAtFeeCheck(k) ==
    /\ req[k].kind = "Wrapper"
    /\ VerdictsOf(k) = { "Err" }
    /\ \A m \in 1..(k - 1) : req[m].hash # req[k].hash
    /\ req[k].hash \notin storage.replay
    /\ req[k].inner \notin storage.replay

C14_Witness ==
    /\ Done
    /\ \E k, n \in 1..Len(req) :
          /\ k < n
          /\ DroppedAtFeeCheck(k)
          /\ VerdictsOf(n) = { "Ok" }
          /\ req[k].hash \notin temp_state.replay

\* The minimum rate as claimed by C15: the local rate when the local
\* configuration lists the token, else the global one; None when the token
\* is listed in neither.
MinimumAsClaimed(tx) ==
    IF mode.local_config # None /\ tx.token \in DOMAIN mode.local_config[1]
    THEN Some(mode.local_config[1][tx.token])
    ELSE IF tx.token \in DOMAIN storage.gas_cost
         THEN Some(storage.gas_cost[tx.token]) ELSE None

\* The minimum rate with a local configuration that is exclusive: when
\* there is one, only the tokens it lists have a minimum rate.
MinimumWithExclusiveLocal(tx) ==
    IF mode.local_config # None
    THEN IF tx.token \in DOMAIN mode.local_config[1]
         THEN Some(mode.local_config[1][tx.token]) ELSE None
    ELSE IF tx.token \in DOMAIN storage.gas_cost
         THEN Some(storage.gas_cost[tx.token]) ELSE None

\* The request carries a block time that converts to a DateTimeUtc, the tx
\* carries an expiration, and the block time is past it.
ExpiredAtBlockTime(tx) ==
    /\ block_time # None
    /\ block_time[1] >= 0
    /\ tx.expiration # None
    /\ block_time[1] > tx.expiration[1]

\* Everything the gate asks of a wrapper but the minimum rate, in overlay
\* ts: decodable, not expired, signed, a wrapper, enough gas for its bytes,
\* not replayed, a total fee that does not overflow, that the payer's
\* balance covers and that the proposer's balance can take.
PassesRestOfGate(tx, ts) ==
    /\ tx.kind = "Wrapper"
    /\ tx.sig
    /\ ~ExpiredAtBlockTime(tx)
    /\ tx.size <= tx.gas_limit
    /\ tx.hash \notin storage.replay \cup ts.replay
    /\ tx.inner \notin storage.replay
    /\ TotalFee(tx) <= AmountMax
    /\ TotalFee(tx) <= BalanceOf(ts, tx.payer, tx.token)
    /\ tx.payer # Proposer =>
          BalanceOf(ts, Proposer, tx.token) + TotalFee(tx) <= AmountMax

\* C15 as claimed: a wrapper passes the gate exactly when its rate is at
\* least the minimum resolved as the local rate if the local configuration
\* lists its token and as the global gas cost otherwise (a local
\* configuration that does not list the token included), and the rest of
\* the gate passes.
C15_LocalThenGlobalMinimum ==
    [][ \A i \in 1..Len(req) :
          (req[i].kind = "Wrapper" /\ \E v \in { "Ok", "Rejected", "OverflowsBin", "Err" } : Examined(i, v))
          => ( PassedGate(i) <=>
                 /\ MinimumAsClaimed(req[i]) # None
                 /\ req[i].amount_per_gas_unit >= MinimumAsClaimed(req[i])[1]
                 /\ PassesRestOfGate(req[i], temp_state) )
      ]_vars

\* C15 as amended: a wrapper passes the gate exactly when its rate is at
\* least the minimum resolved as the local rate when there is a local
\* configuration (no minimum, hence a drop, when it does not list the
\* token) and as the global gas cost when there is none, and the rest of
\* the gate passes.
C15_LocalOverridesGlobalMinimum ==
    [][ \A i \in 1..Len(req) :
          (req[i].kind = "Wrapper" /\ \E v \in { "Ok", "Rejected", "OverflowsBin", "Err" } : Examined(i, v))
          => ( PassedGate(i) <=>
                 /\ MinimumWithExclusiveLocal(req[i]) # None
                 /\ req[i].amount_per_gas_unit >= MinimumWithExclusiveLocal(req[i])[1]
                 /\ PassesRestOfGate(req[i], temp_state) )
      ]_vars

\* A local configuration lists a token without a global gas cost and not
\* one that has it: the wrapper paying in the first is admitted, the one
\* paying in the second dropped.
C15_Witness ==
    /\ Done
    /\ mode.local_config # None
    /\ \E k, n \in 1..Len(req) :
          /\ req[k].kind = "Wrapper" /\ req[n].kind = "Wrapper"
          /\ req[k].token \in DOMAIN mode.local_config[1]
          /\ req[k].token \notin DOMAIN storage.gas_cost
          /\ VerdictsOf(k) = { "Ok" }
          /\ req[n].token \notin DOMAIN mode.local_config[1]
          /\ req[n].token \in DOMAIN storage.gas_cost
          /\ req[n].amount_per_gas_unit >= storage.gas_cost[req[n].token]
          /\ VerdictsOf(n) = { "Err" }

\* C16: every wrapper of the proposal pays in a token the block proposer
\* accepts: one the local configuration lists when there is a local
\* configuration, one with a global minimum gas price when there is none.
C16_FeeTokenAccepted ==
    \A i \in Range(out) \cup Range(batches[PhaseNormal]) :
        req[i].kind = "Wrapper" =>
            IF mode.local_config # None
            THEN req[i].token \in DOMAIN mode.local_config[1]
            ELSE req[i].token \in DOMAIN storage.gas_cost

\* Without a local configuration a wrapper paying in a token without a
\* global gas cost is dropped though its payer holds the token, next to
\* one that is admitted.
C16_Witness ==
    /\ Done
    /\ mode.local_config = None
    /\ \E k, n \in 1..Len(req) :
          /\ req[k].kind = "Wrapper"
          /\ req[k].token \notin DOMAIN storage.gas_cost
          /\ TotalFee(req[k]) <= BalanceOf(storage, req[k].payer, req[k].token)
          /\ VerdictsOf(k) = { "Err" }
          /\ n \in Range(out)

\* C17: a wrapper passes the gate only if its rate is at least the minimum
\* (the local rate when a local configuration is set, else the global gas
\* cost of its token), and a wrapper whose rate equals the minimum is
\* dropped only if the rest of the gate fails.
C17_RateAtLeastMinimum ==
    [][ \A i \in 1..Len(req) :
          LET tx == req[i]
              min == IF mode.local_config # None
                     THEN mode.local_config[1] ELSE storage.gas_cost
          IN  /\ PassedGate(i) =>
                    /\ tx.token \in DOMAIN min
                    /\ tx.amount_per_gas_unit >= min[tx.token]
              /\ ( /\ Examined(i, "Err")
                   /\ tx.token \in DOMAIN min
                   /\ tx.amount_per_gas_unit = min[tx.token] )
                 => ~PassesRestOfGate(tx, temp_state)
      ]_vars

\* Under a local rate of 2 a wrapper offering 1, the global minimum, is
\* dropped and one offering 2 is admitted.
C17_Witness ==
    /\ Done
    /\ mode.local_config # None
    /\ \E k, n \in 1..Len(req) :
          /\ req[k].kind = "Wrapper" /\ req[n].kind = "Wrapper"
          /\ req[k].token \in DOMAIN mode.local_config[1]
          /\ req[k].token \in DOMAIN storage.gas_cost
          /\ req[k].amount_per_gas_unit < mode.local_config[1][req[k].token]
          /\ req[k].amount_per_gas_unit >= storage.gas_cost[req[k].token]
          /\ TotalFee(req[k]) <= BalanceOf(storage, req[k].payer, req[k].token)
          /\ VerdictsOf(k) = { "Err" }
          /\ req[n].token \in DOMAIN mode.local_config[1]
          /\ req[n].amount_per_gas_unit = mode.local_config[1][req[n].token]
          /\ VerdictsOf(n) = { "Ok" }

\* C18: a wrapper whose total fee amount_per_gas_unit * gas_limit does
\* not fit the Amount is dropped by the gate whenever it is examined, and
\* no balance of the temp overlay changes.
C18_FeeOverflowDropped ==
    [][ \A i \in 1..Len(req) :
          \A v \in { "Ok", "Rejected", "OverflowsBin", "Err" } :
              ( /\ Examined(i, v)
                /\ req[i].kind = "Wrapper"
                /\ TotalFee(req[i]) > AmountMax )
              => /\ v = "Err"
                 /\ temp_state'.balances = temp_state.balances
      ]_vars

\* The overflowing wrapper is dropped although its payer's balance covers
\* the product taken modulo the Amount's width, and a wrapper after it is
\* admitted.
C18_Witness ==
    /\ Done
    /\ mode.local_config = None
    /\ \E k, n \in 1..Len(req) :
          /\ k < n
          /\ req[k].kind = "Wrapper"
          /\ TotalFee(req[k]) > AmountMax
          /\ TotalFee(req[k]) % (AmountMax + 1)
                <= BalanceOf(storage, req[k].payer, req[k].token)
          /\ req[k].amount_per_gas_unit >= storage.gas_cost[req[k].token]
          /\ \A m \in 1..(k - 1) : req[m].kind # "Wrapper"
          /\ VerdictsOf(k) = { "Err" }
          /\ VerdictsOf(n) = { "Ok" }

\* C19: a tx with an expiration is dropped by the gate whenever the block
\* time is known and past the expiration, and the expiration check drops
\* nothing else: a wrapper that meets the minimum rate and the rest of the
\* gate is dropped exactly when block_time > expiration, so that it passes
\* when its expiration equals the block time.
C19_ExpiredExactlyPastExpiration ==
    [][ \A i \in 1..Len(req) :
          \A v \in { "Ok", "Rejected", "OverflowsBin", "Err" } :
              Examined(i, v) =>
                LET tx == req[i]
                    past == /\ block_time # None
                            /\ block_time[1] >= 0
                            /\ tx.expiration # None
                            /\ block_time[1] > tx.expiration[1]
                    min == MinimumWithExclusiveLocal(tx)
                IN  /\ past => v = "Err"
                    /\ ( /\ tx.kind = "Wrapper" /\ tx.sig
                         /\ tx.size <= tx.gas_limit
                         /\ tx.hash \notin storage.replay \cup temp_state.replay
                         /\ tx.inner \notin storage.replay
                         /\ min # None
                         /\ tx.amount_per_gas_unit >= min[1]
                         /\ TotalFee(tx) <= AmountMax
                         /\ TotalFee(tx) <= BalanceOf(temp_state, tx.payer, tx.token)
                         /\ BalanceOf(temp_state, Proposer, tx.token) + TotalFee(tx)
                               <= AmountMax )
                       => (v = "Err" <=> past)
      ]_vars

\* At a known block time a wrapper that expires at that time is admitted
\* and one that expires one unit earlier is dropped.
C19_Witness ==
    /\ Done
    /\ block_time # None
    /\ \E k, n \in 1..Len(req) :
          /\ req[k].kind = "Wrapper" /\ req[n].kind = "Wrapper"
          /\ req[k].expiration = Some(block_time[1])
          /\ VerdictsOf(k) = { "Ok" }
          /\ k \in Range(out)
          /\ req[n].expiration = Some(block_time[1] - 1)
          /\ VerdictsOf(n) = { "Err" }
          /\ n \notin Range(out)

\* C20: the normal-tx batch holds wrapper txs only: a raw tx, or a protocol
\* tx that reaches the normal-tx phase, is never in it.
C20_NormalBatchOnlyWrappers ==
    \A i \in Range(batches[PhaseNormal]) : req[i].kind = "Wrapper"

\* A raw tx and a protocol tx were both examined in the normal-tx phase and
\* dropped, next to a wrapper that was admitted.
C20_Witness ==
    /\ Done
    /\ batches[PhaseNormal] # <<>>
    /\ \E k, n \in 1..Len(req) :
          /\ req[k].kind = "Raw"
          /\ VerdictsOf(k) = { "Err" }
          /\ req[n].kind = "Protocol"
          /\ VerdictsOf(n) = { "Err" }

\* C21: a wrapper whose gas limit is lower than the gas charged for its
\* bytes is dropped by the gate whenever it is examined, before the replay
\* and fee checks: the gate returns with no write pending in the temp
\* overlay, and the overlay after the step is the one before it.
C21_GasLimitBelowWrapperGasDropped ==
    [][ \A i \in 1..Len(req) :
          \A v \in { "Ok", "Rejected", "OverflowsBin", "Err" } :
              ( /\ Examined(i, v)
                /\ req[i].kind = "Wrapper"
                /\ req[i].gas_limit < req[i].size )
              => /\ v = "Err"
                 /\ temp_state' = temp_state
                 /\ validate_wrapper_bytes(req[i], block_datetime(block_time),
                        Proposer, mode.local_config, storage, temp_state).state
                      = temp_state
      ]_vars

\* The overlay at the start of the normal-tx phase.
FreshOverlay == [ balances |-> storage.balances, replay |-> {} ]

\* The wrapper at position k would pass the gate but for its gas limit.
ValidButForGas(k) ==
    /\ req[k].gas_limit < req[k].size
    /\ MinimumWithExclusiveLocal(req[k]) # None
    /\ req[k].amount_per_gas_unit >= MinimumWithExclusiveLocal(req[k])[1]
    /\ PassesRestOfGate([ req[k] EXCEPT !.gas_limit = req[k].size ], FreshOverlay)

C21_Witness ==
    /\ Done
    /\ \E k, n \in 1..Len(req) :
          /\ k < n
          /\ \A m \in 1..(k - 1) : req[m].kind # "Wrapper"
          /\ ValidButForGas(k)
          /\ VerdictsOf(k) = { "Err" }
          /\ k \notin Range(out)
          /\ n \in Range(out)

\* The wrapper at position k passes the whole gate on a fresh overlay.
ValidOnFreshOverlay(k) ==
    /\ MinimumWithExclusiveLocal(req[k]) # None
    /\ req[k].amount_per_gas_unit >= MinimumWithExclusiveLocal(req[k])[1]
    /\ PassesRestOfGate(req[k], FreshOverlay)

\* C22: a candidate that fails the admission gate is left out and never
\* stops the scan: the scan of the normal-tx phase is only ever ended by
\* the allocator's Rejected; unless that happened, every tx that is not a
\* protocol tx has been examined when the call is done; every candidate
\* the allocator accepted is in the proposal; and a request of one valid
\* wrapper and one raw tx, in either order, yields exactly the wrapper.
C22_GateFailureNeverStopsScan ==
    /\ (pc = PhaseNormal /\ halted) =>
          /\ log # <<>>
          /\ log[Len(log)].verdict = "Rejected"
    /\ (Done /\ mode.validator) =>
          /\ (\A m \in 1..Len(log) :
                  log[m].phase = PhaseNormal => log[m].verdict # "Rejected")
             => \A k \in 1..Len(req) :
                    req[k].kind # "Protocol" => VerdictsOf(k) # {}
          /\ \A k \in 1..Len(req) :
                "Ok" \in VerdictsOf(k) => k \in Range(out)
          /\ \A a, b \in 1..Len(req) :
                ( /\ Len(req) = 2
                  /\ a # b
                  /\ ValidOnFreshOverlay(a)
                  /\ req[b].kind = "Raw" )
                => out = << a >>

\* A valid wrapper is in the proposal after candidates that failed the gate
\* in two different ways.
C22_Witness ==
    /\ Done
    /\ \E j, k, n \in 1..Len(req) :
          /\ j < k /\ k < n
          /\ VerdictsOf(j) = { "Err" }
          /\ VerdictsOf(k) = { "Err" }
          /\ req[j].kind # "Wrapper"
          /\ req[k].kind = "Wrapper"
          /\ VerdictsOf(n) = { "Ok" }
          /\ out = << n >>

\* C23: no step of prepare_proposal changes the committed storage (the
\* fee transfers and replay-protection entries are in the temp overlay
\* only), and successive calls with the same request return the same
\* proposal.
C23_StorageUnchangedByCall ==
    [][ /\ storage' = storage
        /\ \A a, b \in 1..Len(returned') : returned'[a] = returned'[b]
      ]_vars

\* Two calls have returned the same non-empty proposal, and the overlay of
\* the last one holds fee transfers and replay-protection entries that the
\* storage does not.
C23_Witness ==
    /\ Len(returned) >= 2
    /\ returned[1] # <<>>
    /\ returned[2] = returned[1]
    /\ temp_state.balances # storage.balances
    /\ temp_state.replay # {}
    /\ temp_state.replay \cap storage.replay = {}

\* The order of the positions of a call.
PhaseRank(p) ==
    CASE p = "start" -> 0
      [] p = PhaseProtoWith -> 1
      [] p = PhaseNormal -> 2
      [] p = PhaseProtoWithout -> 3
      [] p = "done" -> 4

\* C24: the allocator's phases follow each other in one direction, none
\* skipped or re-entered (a validator goes start, first protocol phase,
\* normal phase, last protocol phase, done); a candidate is offered to the
\* allocator in the phase the call is in, a protocol tx only in the first
\* or last phase and any other tx only in the normal phase; the bins of
\* the normal phase only change by an allocation in the normal phase, the
\* protocol bin only by one in a protocol phase; nothing is allocated or
\* offered once the last phase has ended.
C24_PhasesInOrder ==
    [][ /\ pc' # pc =>
              \/ PhaseRank(pc') = PhaseRank(pc) + 1
              \/ pc = "start" /\ pc' = "done" /\ ~mode.validator
        /\ log' # log =>
              /\ pc' = pc
              /\ log' = Append(log, log'[Len(log')])
              /\ log'[Len(log')].phase = pc
              /\ pc \in Phases
              /\ (req[log'[Len(log')].idx].kind = "Protocol"
                    /\ log'[Len(log')].verdict # "Err")
                 <=> pc \in { PhaseProtoWith, PhaseProtoWithout }
        /\ (pc' = pc /\ << alloc'.space, alloc'.gas >> # << alloc.space, alloc.gas >>)
              => pc = PhaseNormal
        /\ (pc' = pc /\ alloc'.protocol_txs # alloc.protocol_txs)
              => pc \in { PhaseProtoWith, PhaseProtoWithout }
        /\ pc = "done" => << alloc', batches', log', out' >> = << alloc, batches, log, out >>
      ]_vars

\* A call went through the three phases and admitted a tx in each.
C24_Witness ==
    /\ Done
    /\ \A ph \in Phases :
          \E k \in 1..Len(log) : log[k].phase = ph /\ log[k].verdict = "Ok"
    /\ alloc.space.consumed > 0
    /\ alloc.protocol_txs.consumed > 0

\* C25: a node that is not a validator returns an empty proposal and
\* examines no candidate, whatever the request and the committed state.
C25_NonValidatorProposalEmpty ==
    ~mode.validator =>
        /\ out = <<>>
        /\ log = <<>>
        /\ pc \in { "start", "done" }

\* A non-validator has returned on a request that holds a vote extension
\* and a wrapper, after a block was committed.
C25_Witness ==
    /\ Done
    /\ ~mode.validator
    /\ storage.last_block
    /\ \E k, n \in 1..Len(req) :
          /\ is_vote_extension(req[k])
          /\ req[n].kind = "Wrapper"
          /\ ValidOnFreshOverlay(n)

\* The number of steps of prepare_proposal that can be taken next.
EnabledSteps ==
      (IF ENABLED NotValidator THEN 1 ELSE 0)
    + (IF ENABLED StartProposal THEN 1 ELSE 0)
    + (IF ENABLED ProtocolGenesis THEN 1 ELSE 0)
    + (IF ENABLED ProtocolStep THEN 1 ELSE 0)
    + (IF ENABLED ProtocolEnd THEN 1 ELSE 0)
    + (IF ENABLED NormalStep THEN 1 ELSE 0)
    + (IF ENABLED NormalEnd THEN 1 ELSE 0)

Increasing(s) == \A a, b \in 1..Len(s) : a < b => s[a] < s[b]

\* The request positions of the entries of a log.
Positions(l) == [ k \in 1..Len(l) |-> l[k].idx ]

\* C27: the normal-tx phase examines the candidates in mempool-list order,
\* each at most once, and its batch holds the admitted ones in that order:
\* the positions examined and the positions of the batch are both strictly
\* increasing.
C27_NormalBatchInMempoolOrder ==
    /\ Increasing(Positions(LogOf(PhaseNormal)))
    /\ Increasing(batches[PhaseNormal])
    /\ Done =>
          \A a, b \in 1..Len(out) :
              ( /\ a < b
                /\ req[out[a]].kind = "Wrapper"
                /\ req[out[b]].kind = "Wrapper" )
              => out[a] < out[b]

\* Two different wrappers were admitted around a candidate that was not.
C27_Witness ==
    /\ Done
    /\ \E a, k, b \in 1..Len(req) :
          /\ a < k /\ k < b
          /\ req[a] # req[b]
          /\ batches[PhaseNormal] = << a, b >>
          /\ VerdictsOf(k) = { "Err" }

\* Everything the gate asks of a wrapper but the expiration, in overlay ts.
PassesGateButExpiration(tx, ts) ==
    /\ tx.kind = "Wrapper"
    /\ tx.sig
    /\ tx.size <= tx.gas_limit
    /\ tx.hash \notin storage.replay \cup ts.replay
    /\ tx.inner \notin storage.replay
    /\ MinimumWithExclusiveLocal(tx) # None
    /\ tx.amount_per_gas_unit >= MinimumWithExclusiveLocal(tx)[1]
    /\ TotalFee(tx) <= AmountMax
    /\ TotalFee(tx) <= BalanceOf(ts, tx.payer, tx.token)
    /\ tx.payer # Proposer =>
          BalanceOf(ts, Proposer, tx.token) + TotalFee(tx) <= AmountMax

\* C28: when the request carries no block time, or one that does not
\* convert to a datetime, no wrapper is dropped for its expiration: a
\* wrapper that passes the rest of the gate passes the gate, whatever its
\* expiration.
C28_NoBlockTimeNoExpiration ==
    [][ (block_time = None \/ block_time[1] < 0) =>
          \A i \in 1..Len(req) :
              ( /\ Examined(i, "Err")
                /\ req[i].expiration # None )
              => ~PassesGateButExpiration(req[i], temp_state)
      ]_vars

\* The block time of the request does not convert, and a wrapper with an
\* expiration has been admitted.
C28_Witness ==
    /\ Done
    /\ block_time # None
    /\ block_time[1] < 0
    /\ \E k \in 1..Len(req) :
          /\ req[k].kind = "Wrapper"
          /\ req[k].expiration # None
          /\ VerdictsOf(k) = { "Ok" }
          /\ k \in Range(out)

\* C29: no step of a protocol-tx phase writes to the temp overlay or to
\* the storage, so the normal-tx phase starts on the overlay of the
\* committed balances and no pending replay-protection entry, whatever
\* protocol txs were offered or admitted before.
C29_ProtocolPhasesWriteNothing ==
    [][ /\ pc \in { "start", PhaseProtoWith, PhaseProtoWithout } =>
              /\ temp_state' = temp_state
              /\ storage' = storage
        /\ (pc # PhaseNormal /\ pc' = PhaseNormal) => temp_state' = FreshOverlay
      ]_vars

\* Protocol txs were admitted before and after the normal-tx phase, in
\* which a wrapper paid its fee.
C29_Witness ==
    /\ Done
    /\ batches[PhaseProtoWith] # <<>>
    /\ batches[PhaseProtoWithout] # <<>>
    /\ \E k \in Range(batches[PhaseNormal]) :
          BalanceOf(temp_state, req[k].payer, req[k].token)
              < BalanceOf(storage, req[k].payer, req[k].token)
    /\ temp_state.replay = { req[k].hash : k \in Range(batches[PhaseNormal]) }

\* C30: while no block has been committed, neither protocol-tx phase offers
\* a tx to the allocator, admits one or fills the protocol bin, the mempool
\* list still holds every tx of the request in order, and the proposal
\* holds no protocol tx.
C30_GenesisProtocolPhasesIdle ==
    ~storage.last_block =>
        /\ batches[PhaseProtoWith] = <<>>
        /\ batches[PhaseProtoWithout] = <<>>
        /\ \A k \in 1..Len(log) : log[k].phase = PhaseNormal
        /\ alloc.protocol_txs.consumed = 0
        /\ pc # "start" => txs = [ k \in 1..Len(req) |-> k ]
        /\ \A i \in Range(out) : req[i].kind # "Protocol"

\* A validator finished a proposal before the first block from a mempool
\* holding two vote extensions and a wrapper that the normal phase admitted.
C30_Witness ==
    /\ Done
    /\ mode.validator
    /\ ~storage.last_block
    /\ Cardinality({ k \in 1..Len(req) : is_vote_extension(req[k]) }) >= 2
    /\ batches[PhaseNormal] # <<>>
    /\ out = batches[PhaseNormal]

\* A sequence without repeated elements.
NoDuplicates(s) == \A a, b \in 1..Len(s) : s[a] = s[b] => a = b

\* C31: every tx of the proposal is an entry of the request, and no entry
\* of the request is taken twice: the three batches are duplicate-free and
\* pairwise disjoint, so a protocol tx admitted in phase 1 is admitted in
\* no later phase.
C31_ProposalSelectsFromMempool ==
    /\ Range(out) \subseteq 1..Len(req)
    /\ NoDuplicates(out)
    /\ \A p \in Phases :
          /\ Range(batches[p]) \subseteq 1..Len(req)
          /\ NoDuplicates(batches[p])
          /\ \A q \in Phases \ { p } :
                Range(batches[p]) \cap Range(batches[q]) = {}
    /\ \A k \in Range(txs) : k \notin Range(batches[PhaseProtoWith])

\* The request holds the same protocol tx twice; phase 1 admitted one of
\* the entries and phase 3 the other, around an admitted wrapper.
C31_Witness ==
    /\ Done
    /\ batches[PhaseNormal] # <<>>
    /\ \E a \in Range(batches[PhaseProtoWith]) :
          \E b \in Range(batches[PhaseProtoWithout]) : req[a] = req[b]
    /\ Len(out) = Len(batches[PhaseProtoWith]) + Len(batches[PhaseNormal])
                     + Len(batches[PhaseProtoWithout])

\* The fees that the wrappers of s pay in token: those of all of them, or
\* (payer # "") those paid by payer.
RECURSIVE FeesOf(_, _, _)
FeesOf(s, payer, token) ==
    IF s = <<>> THEN 0
    ELSE (IF /\ req[Head(s)].token = token
             /\ payer \in { "", req[Head(s)].payer }
          THEN TotalFee(req[Head(s)]) ELSE 0)
            + FeesOf(Tail(s), payer, token)

\* The overlay that holds the writes of the wrappers of s and no other: a
\* replay-protection entry per wrapper, its fee taken from its payer and
\* given to the block proposer.
OverlayAfter(s) ==
    [ replay   |-> { req[k].hash : k \in Range(s) },
      balances |-> [ key \in DOMAIN storage.balances |->
          storage.balances[key] - FeesOf(s, key[1], key[2])
              + (IF key[1] = Proposer THEN FeesOf(s, "", key[2]) ELSE 0) ] ]

\* The candidates the normal phase offered to the allocator that it
\* refused with Rejected.
RefusedByAllocator ==
    { k \in 1..Len(log) : log[k].phase = PhaseNormal /\ log[k].verdict = "Rejected" }

DecOne == 10 ^ DecPrecision

\* The largest magnitude a Dec, or the intermediate of one of its
\* operations, can hold.
DecMax == AmountMax * DecOne * DecOne

Magnitude(n) == IF n < 0 THEN 0 - n ELSE n

\* Integer division that rounds towards zero, as the division of the
\* signed integer behind Dec does.
TruncDiv(a, b) ==
    LET q == Magnitude(a) \div Magnitude(b)
    IN  IF (a < 0) = (b < 0) THEN q ELSE 0 - q

dec_checked(n) == IF Magnitude(n) > DecMax THEN None ELSE Some(n)

dec_checked_add(a, b) == dec_checked(a + b)

dec_checked_sub(a, b) == dec_checked(a - b)

dec_checked_mul(a, b) ==
    IF Magnitude(a * b) > DecMax THEN None ELSE Some(TruncDiv(a * b, DecOne))

dec_checked_div(a, b) ==
    IF b = 0 \/ Magnitude(a * DecOne) > DecMax THEN None
    ELSE Some(TruncDiv(a * DecOne, b))

\* Dec::try_from(Uint) and Dec::from(u64).
dec_try_from(u) == dec_checked(u * DecOne)

dec_is_negative(a) == a < 0

\* Dec::to_uint: None for a negative value, else the integral part.
dec_to_uint(a) == IF a < 0 THEN None ELSE Some(a \div DecOne)

\* std::cmp::min.
min(a, b) == IF a <= b THEN a ELSE b

\* Mutant of compute_control: the proportional and derivative gains are
\* swapped in the first product.
compute_control_gains_swapped(self, coeff, current_metric) ==
    LET gains == dec_checked_sub(self.p_gain_nom, self.d_gain_nom)
        a == IF gains = None THEN None
             ELSE dec_checked_mul(current_metric, gains[1])
        b == dec_checked_mul(self.target_metric, self.p_gain_nom)
        c == dec_checked_mul(self.last_metric, self.d_gain_nom)
        ab == IF a = None \/ b = None THEN None
              ELSE dec_checked_add(a[1], b[1])
        val == IF ab = None \/ c = None THEN None
               ELSE dec_checked_sub(ab[1], c[1])
    IN  IF val = None THEN None ELSE dec_checked_mul(coeff, val[1])

\* PDController::compute_control: every operation is checked, an error of
\* any of them is the error of the call.
compute_control(self, coeff, current_metric) ==
    LET gains == dec_checked_sub(self.d_gain_nom, self.p_gain_nom)
        a == IF gains = None THEN None
             ELSE dec_checked_mul(current_metric, gains[1])
        b == dec_checked_mul(self.target_metric, self.p_gain_nom)
        c == dec_checked_mul(self.last_metric, self.d_gain_nom)
        ab == IF a = None \/ b = None THEN None
              ELSE dec_checked_add(a[1], b[1])
        val == IF ab = None \/ c = None THEN None
               ELSE dec_checked_sub(ab[1], c[1])
    IN  IF val = None THEN None ELSE dec_checked_mul(coeff, val[1])

\* PDController::get_max_inflation.
get_max_inflation(self) ==
    LET total_native == dec_try_from(self.total_native_amount)
        epochs_py == dec_try_from(self.epochs_per_year)
        prod == IF total_native = None THEN None
                ELSE dec_checked_mul(total_native[1], self.max_reward_rate)
        max_inflation == IF prod = None \/ epochs_py = None THEN None
                         ELSE dec_checked_div(prod[1], epochs_py[1])
    IN  IF max_inflation = None THEN None ELSE dec_to_uint(max_inflation[1])

\* Mutant of compute_inflation_aux: the new amount is returned without
\* the cap.
compute_inflation_aux_uncapped(self, control) ==
    LET last_inflation_amount == dec_try_from(self.last_inflation_amount)
        new_inflation_amount ==
            IF last_inflation_amount = None THEN None
            ELSE dec_checked_add(last_inflation_amount[1], control)
        max_inflation == get_max_inflation(self)
    IN  IF new_inflation_amount = None \/ max_inflation = None THEN None
        ELSE IF dec_is_negative(new_inflation_amount[1]) THEN Some(0)
        ELSE dec_to_uint(new_inflation_amount[1])

\* PDController::compute_inflation_aux.
compute_inflation_aux(self, control) ==
    LET last_inflation_amount == dec_try_from(self.last_inflation_amount)
        new_inflation_amount ==
            IF last_inflation_amount = None THEN None
            ELSE dec_checked_add(last_inflation_amount[1], control)
        as_uint == IF dec_is_negative(new_inflation_amount[1]) THEN Some(0)
                   ELSE dec_to_uint(new_inflation_amount[1])
        max_inflation == get_max_inflation(self)
    IN  IF new_inflation_amount = None \/ max_inflation = None THEN None
        ELSE Some(min(as_uint[1], max_inflation[1]))

\* PDController::compute_inflation.
compute_inflation(self, control_coeff, current_metric) ==
    LET control == compute_control(self, control_coeff, current_metric)
    IN  IF control = None THEN None
        ELSE compute_inflation_aux(self, control[1])

\* Gains and metrics: tenths, quarters, halves and units, so that some
\* products are truncated and some exact; coefficients of both signs, one
\* of them large.
Gains == { DecOne \div 10, DecOne \div 4, DecOne \div 2, DecOne }

Metrics == { DecOne \div 10, DecOne \div 2, (3 * DecOne) \div 2 }

Coeffs == { 0, DecOne, 0 - (3 * DecOne), 12 * DecOne }

Controllers ==
    [ total_native_amount   : { 3, 9 },
      max_reward_rate       : { 0, DecOne \div 2, 2 * DecOne },
      last_inflation_amount : { 0, 1, 2, 5 },
      p_gain_nom            : Gains,
      d_gain_nom            : Gains,
      epochs_per_year       : { 0, 1, 2 },
      target_metric         : { DecOne \div 2, (3 * DecOne) \div 2 },
      last_metric           : Metrics ]

\* The one call of compute_inflation of a behaviour, on a controller built
\* by PDController::new.
ComputeInflationCall ==
    /\ inflation_call = None
    /\ \E self \in Controllers, control_coeff \in Coeffs,
          current_metric \in Metrics :
          inflation_call' = Some(
              [ self           |-> self,
                control_coeff  |-> control_coeff,
                current_metric |-> current_metric,
                control |-> compute_control(self, control_coeff, current_metric),
                result  |-> compute_inflation(self, control_coeff, current_metric) ])
    /\ UNCHANGED << proposalVars, bin, bin_call, vp_call, amount_call >>

\* No proposal is under construction and no Bin is in use.
InitIdle ==
    /\ InitProposal(<<>>, None, [ validator |-> FALSE, local_config |-> None ],
                    CHOOSE st \in AllocStorages : TRUE)
    /\ IdleBin

SpecInflation == InitIdle /\ [][ComputeInflationCall]_vars

\* The maximum inflation of a controller as a rational truncated once:
\* total_native_amount * max_reward_rate / epochs_per_year.
MaxInflationOf(c) ==
    (c.total_native_amount * c.max_reward_rate) \div (c.epochs_per_year * DecOne)

\* last_inflation_amount + control of the recorded call, as a Dec.
NewInflationOf(call) ==
    call.self.last_inflation_amount * DecOne + call.control[1]

\* C33: a call of compute_inflation that returns Ok(x) has x at most the
\* maximum inflation (total_native_amount * max_reward_rate /
\* epochs_per_year, truncated), whatever the coefficient and the current
\* metric, and x = 0 when last_inflation_amount + control is negative.
C33_InflationCappedAndClamped ==
    (inflation_call # None /\ inflation_call[1].result # None) =>
        LET call == inflation_call[1]
            x == call.result[1]
        IN  /\ call.self.epochs_per_year > 0
            /\ call.self.max_reward_rate >= 0
            /\ 0 <= x
            /\ x <= MaxInflationOf(call.self)
            /\ NewInflationOf(call) < 0 => x = 0

\* A call returned the maximum inflation, which is positive and below
\* last_inflation_amount + control.
C33_Witness ==
    /\ inflation_call # None
    /\ inflation_call[1].result # None
    /\ inflation_call[1].result[1] > 0
    /\ inflation_call[1].result[1] = MaxInflationOf(inflation_call[1].self)
    /\ NewInflationOf(inflation_call[1]) >=
          (MaxInflationOf(inflation_call[1].self) + 1) * DecOne

\* The recorded call was made in the steady state.
SteadyState(call) ==
    /\ call.current_metric = call.self.target_metric
    /\ call.current_metric = call.self.last_metric

\* coeff * (current * (d - p) + target * p - last * d) of the recorded
\* call, every product truncated to a Dec.
ControlOf(call) ==
    TruncDiv(call.control_coeff *
        ( TruncDiv(call.current_metric *
                     (call.self.d_gain_nom - call.self.p_gain_nom), DecOne)
          + TruncDiv(call.self.target_metric * call.self.p_gain_nom, DecOne)
          - TruncDiv(call.self.last_metric * call.self.d_gain_nom, DecOne) ),
        DecOne)

\* The three products of the control formula are Decs without truncation.
ExactProducts(call) ==
    /\ (call.current_metric * (call.self.d_gain_nom - call.self.p_gain_nom))
          % DecOne = 0
    /\ (call.self.target_metric * call.self.p_gain_nom) % DecOne = 0
    /\ (call.self.last_metric * call.self.d_gain_nom) % DecOne = 0

\* C34 as claimed: compute_control returns the formula's value, and in the
\* steady state that value is exactly zero and compute_inflation returns
\* min(last_inflation_amount, max inflation).
C34_SteadyStateControlZero ==
    (inflation_call # None /\ inflation_call[1].control # None) =>
        LET call == inflation_call[1]
        IN  /\ call.control[1] = ControlOf(call)
            /\ SteadyState(call) =>
                  /\ call.control[1] = 0
                  /\ call.result # None =>
                        call.result[1] = min(call.self.last_inflation_amount,
                                             MaxInflationOf(call.self))

\* C34 as amended: compute_control returns the formula's value with every
\* product truncated to a Dec; in the steady state it is exactly zero, and
\* compute_inflation returns min(last_inflation_amount, max inflation),
\* when the gains are equal or the three products are exact.
C34_SteadyStateControlZeroIfExact ==
    (inflation_call # None /\ inflation_call[1].control # None) =>
        LET call == inflation_call[1]
        IN  /\ call.control[1] = ControlOf(call)
            /\ ( /\ SteadyState(call)
                 /\ \/ call.self.p_gain_nom = call.self.d_gain_nom
                    \/ ExactProducts(call) ) =>
                  /\ call.control[1] = 0
                  /\ call.result # None =>
                        call.result[1] = min(call.self.last_inflation_amount,
                                             MaxInflationOf(call.self))

\* A steady-state call with different gains, exact products and a nonzero
\* coefficient returned last_inflation_amount, below the maximum inflation.
C34_Witness ==
    /\ inflation_call # None
    /\ SteadyState(inflation_call[1])
    /\ ExactProducts(inflation_call[1])
    /\ inflation_call[1].self.p_gain_nom # inflation_call[1].self.d_gain_nom
    /\ inflation_call[1].control_coeff # 0
    /\ inflation_call[1].result # None
    /\ inflation_call[1].result[1] = inflation_call[1].self.last_inflation_amount
    /\ inflation_call[1].result[1] < MaxInflationOf(inflation_call[1].self)

\* ------------------------------------------------------------------
\* crates/namada/src/ledger/pgf: the PGF validity predicate.
\* ------------------------------------------------------------------

\* A storage key is the KeyType it falls under and, for a stewards key, the
\* steward's address. An action is its variant and the address it carries.
PgfKey(type, addr) == [ type |-> type, addr |-> addr ]

PgfActionOf(kind, addr) == [ kind |-> kind, addr |-> addr ]

\* pgf_storage::is_pgf_key: every key under the PGF address.
is_pgf_key(key) == key.type # "Unknown"

\* Action::Pgf(_) against any other action.
is_pgf_action(action) ==
    action.kind \in { "UpdateStewardCommission", "ResignSteward" }

\* The first action of the list that the loop rejects, 0 if there is none.
first_unauthorized(actions, verifiers) ==
    LET bad == { k \in 1..Len(actions) :
                    /\ is_pgf_action(actions[k])
                    /\ actions[k].addr \notin verifiers }
    IN  IF bad = {} THEN 0 ELSE CHOOSE k \in bad : \A n \in bad : k <= n

\* PgfVp::is_valid_parameter_change: the tx data must name an accepted
\* governance proposal.
is_valid_parameter_change(data) == data = "accepted"

\* Mutant of validate_key: the number of stewards is not compared.
validate_key_without_count(key, verifiers, pre, post, data) ==
    IF key.type = "Stewards"
    THEN IF post[key.addr] = None
         THEN key.addr \in verifiers
         ELSE IF key.addr \notin verifiers THEN FALSE
              ELSE post[key.addr][1].valid
    ELSE IF key.type = "Fundings" THEN FALSE
    ELSE IF key.type \in { "PgfInflationRate", "StewardInflationRate" }
         THEN is_valid_parameter_change(data)
    ELSE IF key.type = "UnknownPgf" THEN FALSE
    ELSE TRUE

\* The closure of try_for_each on one changed key: TRUE for Ok(()). pre is
\* the set of stewards before the tx, post maps an address to its
\* StewardDetail after the tx, if it is a steward.
validate_key(key, verifiers, pre, post, data) ==
    IF key.type = "Stewards"
    THEN IF Cardinality(pre) < Cardinality({ a \in DOMAIN post : post[a] # None })
         THEN FALSE
         ELSE IF post[key.addr] = None
              THEN key.addr \in verifiers
              ELSE IF key.addr \notin verifiers THEN FALSE
                   ELSE post[key.addr][1].valid
    ELSE IF key.type = "Fundings" THEN FALSE
    ELSE IF key.type \in { "PgfInflationRate", "StewardInflationRate" }
         THEN is_valid_parameter_change(data)
    ELSE IF key.type = "UnknownPgf" THEN FALSE
    ELSE TRUE

\* Mutant of pgf_validate_tx: the actions are not checked against the
\* verifier set.
pgf_validate_tx_without_authorization(actions, keys_changed, verifiers, pre, post, data) ==
    IF actions = <<>> /\ \E key \in keys_changed : is_pgf_key(key)
    THEN "NativeVpError"
    ELSE IF \A key \in keys_changed : validate_key(key, verifiers, pre, post, data)
    THEN "Ok"
    ELSE "NativeVpError"

\* PgfVp::validate_tx: "Ok", or the variant of the error it returns.
pgf_validate_tx(actions, keys_changed, verifiers, pre, post, data) ==
    IF actions = <<>> /\ \E key \in keys_changed : is_pgf_key(key)
    THEN "NativeVpError"
    ELSE IF first_unauthorized(actions, verifiers) # 0
    THEN "Unauthorized"
    ELSE IF \A key \in keys_changed : validate_key(key, verifiers, pre, post, data)
    THEN "Ok"
    ELSE "NativeVpError"

Stewards == { "s1", "s2" }

PgfActions ==
    { PgfActionOf("UpdateStewardCommission", "s1"),
      PgfActionOf("ResignSteward", "s1"),
      PgfActionOf("ResignSteward", "s2"),
      PgfActionOf("Bond", "s1") }

PgfKeys ==
    { PgfKey("Stewards", "s1"), PgfKey("Stewards", "s2"),
      PgfKey("Fundings", ""), PgfKey("PgfInflationRate", ""),
      PgfKey("UnknownPgf", ""), PgfKey("Unknown", "") }

\* StewardDetail, by the validity of its reward distribution.
StewardDetails == { [ valid |-> TRUE ], [ valid |-> FALSE ] }

\* The one call of validate_tx of a behaviour: a tx of at most two actions
\* that changed at most two keys.
PgfValidateCall ==
    /\ vp_call = None
    /\ \E actions \in SeqsUpTo(PgfActions, 2),
          keys_changed \in { ks \in SUBSET PgfKeys : Cardinality(ks) <= 2 },
          verifiers \in SUBSET Stewards,
          pre \in { {}, { "s1" }, Stewards },
          post \in [ Stewards -> { None } \cup { Some(d) : d \in StewardDetails } ],
          data \in { "none", "accepted", "refused" } :
          vp_call' = Some(
              [ actions |-> actions, keys_changed |-> keys_changed,
                verifiers |-> verifiers, pre |-> pre, post |-> post,
                data |-> data,
                result |-> pgf_validate_tx(actions, keys_changed, verifiers,
                                           pre, post, data) ])
    /\ UNCHANGED << proposalVars, bin, bin_call, inflation_call, amount_call >>

SpecPgf == InitIdle /\ [][PgfValidateCall]_vars

\* The stewards after the tx of the recorded call.
StewardsAfter(call) == { a \in DOMAIN call.post : call.post[a] # None }

UnauthorizedActions(call) ==
    { k \in 1..Len(call.actions) :
         /\ call.actions[k].kind \in { "UpdateStewardCommission", "ResignSteward" }
         /\ call.actions[k].addr \notin call.verifiers }

\* C36: a tx with an UpdateStewardCommission or ResignSteward action for
\* an address outside the verifier set is rejected as Unauthorized, and
\* only such a tx is; a tx that changed a PGF key and wrote no action is
\* rejected; a tx whose actions are all of other kinds is accepted or
\* rejected by its changed keys alone.
C36_UnauthorizedActionsRejected ==
    vp_call # None =>
        LET call == vp_call[1]
        IN  /\ UnauthorizedActions(call) # {} <=> call.result = "Unauthorized"
            /\ ( /\ call.actions = <<>>
                 /\ \E key \in call.keys_changed : key.type # "Unknown" )
                  => call.result = "NativeVpError"
            /\ ( /\ call.actions # <<>>
                 /\ \A k \in 1..Len(call.actions) : call.actions[k].kind = "Bond" )
                  => ( call.result = "Ok" <=>
                          \A key \in call.keys_changed :
                              validate_key(key, call.verifiers, call.pre,
                                           call.post, call.data) )

\* A tx was rejected as Unauthorized for its second action, a resignation
\* of a steward outside the verifier set, after an action of another kind;
\* its changed keys would have been accepted.
C36_Witness ==
    /\ vp_call # None
    /\ vp_call[1].result = "Unauthorized"
    /\ Len(vp_call[1].actions) = 2
    /\ vp_call[1].actions[1].kind = "Bond"
    /\ UnauthorizedActions(vp_call[1]) = { 2 }
    /\ vp_call[1].keys_changed # {}
    /\ \A key \in vp_call[1].keys_changed :
          validate_key(key, vp_call[1].verifiers, vp_call[1].pre,
                       vp_call[1].post, vp_call[1].data)

\* ------------------------------------------------------------------
\* core/src/types/token.rs: Amount and MaspDenom.
\* ------------------------------------------------------------------

\* Uint is four words, the least significant first; a word has WordBits
\* bits (64 in the code).
WordMax == 2 ^ WordBits - 1

Words == 0..WordMax

Uints == [ 1..4 -> Words ]

\* The number a Uint stands for, and the Uint of a number in range.
uint_value(raw) ==
    raw[1] + raw[2] * (WordMax + 1) + raw[3] * (WordMax + 1) ^ 2
           + raw[4] * (WordMax + 1) ^ 3

uint_of(n) == [ k \in 1..4 |-> (n \div ((WordMax + 1) ^ (k - 1))) % (WordMax + 1) ]

\* uint::MAX_VALUE, every bit set, and uint::MAX_SIGNED_VALUE, every bit
\* but the highest.
MAX_VALUE == [ k \in 1..4 |-> WordMax ]

MAX_SIGNED_VALUE == [ k \in 1..4 |-> IF k = 4 THEN WordMax \div 2 ELSE WordMax ]

\* Uint::checked_add and Uint::checked_sub.
uint_checked_add(x, y) ==
    IF uint_value(x) + uint_value(y) > uint_value(MAX_VALUE) THEN None
    ELSE Some(uint_of(uint_value(x) + uint_value(y)))

uint_checked_sub(x, y) ==
    IF uint_value(y) > uint_value(x) THEN None
    ELSE Some(uint_of(uint_value(x) - uint_value(y)))

\* Amount::checked_add.
amount_checked_add(self, amount) ==
    LET result == uint_checked_add(self, amount)
    IN  IF result = None THEN None
        ELSE IF uint_value(result[1]) <= uint_value(MAX_VALUE) THEN result
        ELSE None

\* Mutant of amount_checked_signed_add: the sum is compared with MAX_VALUE.
amount_checked_signed_add_to_max(self, amount) ==
    amount_checked_add(self, amount)

\* Amount::checked_signed_add.
amount_checked_signed_add(self, amount) ==
    LET result == uint_checked_add(self, amount)
    IN  IF result = None THEN None
        ELSE IF uint_value(result[1]) <= uint_value(MAX_SIGNED_VALUE) THEN result
        ELSE None

\* Amount::checked_sub.
amount_checked_sub(self, amount) == uint_checked_sub(self, amount)

\* MaspDenom as its discriminant, Zero = 0 to Three = 3.
MaspDenoms == 0..3

\* MaspDenom::iter: (0u8..3).map(Self::from), the end of the range excluded.
masp_denom_iter == [ k \in 1..3 |-> k - 1 ]

\* MaspDenom::denominate: the word of the amount at the denomination.
denominate(denom, amount) == amount[denom + 1]

\* Amount::from_masp_denominated.
from_masp_denominated(val, denom) ==
    [ k \in 1..4 |-> IF k = denom + 1 THEN val ELSE 0 ]

\* The terms from_masp_denominated(d.denominate(a), d) for d in
\* MaspDenom::iter(), in order.
masp_terms(a) ==
    [ k \in 1..Len(masp_denom_iter) |->
        from_masp_denominated(denominate(masp_denom_iter[k], a),
                              masp_denom_iter[k]) ]

\* The one call of a behaviour: the checked operations on two amounts, and
\* the decomposition of the first by MaspDenom::iter().
AmountCall ==
    /\ amount_call = None
    /\ \E a \in Uints, b \in Uints :
          amount_call' = Some(
              [ a |-> a, b |-> b,
                checked_add        |-> amount_checked_add(a, b),
                checked_signed_add |-> amount_checked_signed_add(a, b),
                checked_sub        |-> amount_checked_sub(a, b),
                denoms             |-> masp_denom_iter,
                terms              |-> masp_terms(a) ])
    /\ UNCHANGED << proposalVars, bin, bin_call, inflation_call, vp_call >>

SpecAmount == InitIdle /\ [][AmountCall]_vars

\* None when the number is above the limit, else the Uint of the number.
InRange(n, limit) == IF n > uint_value(limit) THEN None ELSE Some(uint_of(n))

\* C37: the checked operations of Amount return None exactly when the true
\* result is out of range and the exact result otherwise: checked_sub when
\* b > a, checked_add when a + b is above MAX_VALUE, checked_signed_add
\* when a + b is above MAX_SIGNED_VALUE.
C37_CheckedArithmeticExact ==
    amount_call # None =>
        LET call == amount_call[1]
            a == uint_value(call.a)
            b == uint_value(call.b)
        IN  /\ call.checked_sub =
                  (IF b > a THEN None ELSE Some(uint_of(a - b)))
            /\ call.checked_add = InRange(a + b, MAX_VALUE)
            /\ call.checked_signed_add = InRange(a + b, MAX_SIGNED_VALUE)
            /\ (call.a = MAX_VALUE /\ b = 0) => call.checked_signed_add = None
            /\ (call.a = MAX_SIGNED_VALUE /\ b = 1) => call.checked_add # None

\* max_signed + 1: checked_add returns the sum and checked_signed_add None.
C37_Witness ==
    /\ amount_call # None
    /\ amount_call[1].a = MAX_SIGNED_VALUE
    /\ uint_value(amount_call[1].b) = 1
    /\ amount_call[1].checked_add = Some(uint_of(uint_value(MAX_SIGNED_VALUE) + 1))
    /\ amount_call[1].checked_signed_add = None
    /\ amount_call[1].checked_sub # None

\* The sum of a sequence of Uints, as a number.
RECURSIVE SumOfTerms(_)
SumOfTerms(terms) ==
    IF terms = <<>> THEN 0
    ELSE uint_value(Head(terms)) + SumOfTerms(Tail(terms))

\* C38: MaspDenom::iter() yields every denomination, the four words of the
\* amount, and the amounts rebuilt from the words of an amount, each with
\* only its own word set, add up to the amount.
C38_MaspDenomRoundTrip ==
    amount_call # None =>
        LET call == amount_call[1]
        IN  /\ Range(call.denoms) = MaspDenoms
            /\ \A k \in 1..Len(call.terms) :
                  \A w \in 1..4 :
                      call.terms[k][w] =
                          IF w = call.denoms[k] + 1 THEN call.a[w] ELSE 0
            /\ SumOfTerms(call.terms) = uint_value(call.a)

====
